---------------------------- MODULE Spec2Model ----------------------------
(***************************************************************************)
(* Model of the purchase-order enrichment pipeline of src/src/venezuela.py *)
(* (rate lookup with prior-date fallback, order amounts, associated        *)
(* amounts, net debt).                                                     *)
(*                                                                         *)
(* A cell of a DataFrame is a tagged value [k, a, b, s]:                   *)
(*   k = "null"  None / NaN / NaT                                          *)
(*   k = "num"   the exact rational a / b (b > 0, lowest terms)            *)
(*   k = "str"   the text s, a sequence of one-character strings           *)
(*   k = "ts"    a pandas Timestamp: day a, time of day b                  *)
(* Amounts are exact rationals: floating-point rounding, inf and overflow  *)
(* are outside the model.                                                  *)
(***************************************************************************)
EXTENDS Integers, Sequences, FiniteSets, TLC

VARIABLES
    tasa_columns,   \* df_tasa.columns: the column names of the rate table
    df_tasa,        \* df_tasa rows, each a tuple of cells aligned with tasa_columns
    df_ordenes,     \* rows of the orders table as given to the first stage
    areas_dict,     \* areas_dict: the area directory, requester -> area
    df_raw,         \* a sheet read without header: rows of cells
    df_lookup,      \* df_lookup built inside agregar_columna_tasa (sorted by fecha)
    df_columns,     \* df.columns of the orders table, in order
    df,             \* rows of the orders table, each a function column -> cell
    divisores,      \* every divisor a stage has divided an amount by, with its row
    etapas,         \* the stages started so far, in order
    error,          \* the columns named by the error a stage raised, {} when none
    fila_cabezales, \* the row index the header detector returned, -1 before it ran
    peticion,       \* the HTTP request: its endpoint and query parameters
    entorno,        \* environment variables, bucket contents, collaborators that fail
    temp_dir,       \* the directory of tempfile.mkdtemp(): its state and its files
    subidas,        \* the uploads performed, in order: destination and outcome
    eventos,        \* the SSE events yielded so far, in order
    respuesta,      \* the HTTP response returned, a record with codigo 0 before it
    pc              \* the next stage of the run

\* the inputs of a run: no stage assigns them
entradas == <<tasa_columns, df_tasa, df_ordenes, areas_dict, df_raw>>

\* the state of the web service around a run
servicio == <<peticion, entorno, temp_dir, subidas, eventos, respuesta>>

vars == <<tasa_columns, df_tasa, df_ordenes, areas_dict, df_raw, df_lookup,
          df_columns, df, divisores, etapas, error, fila_cabezales,
          peticion, entorno, temp_dir, subidas, eventos, respuesta, pc>>

----------------------------------------------------------------------------
(* Bounds of the model *)

MaxTasas == 2       \* rows of the rate table
MaxDia == 2         \* calendar days 1..MaxDia

----------------------------------------------------------------------------
(* Cells *)

Nulo == [k |-> "null", a |-> 0, b |-> 1, s |-> <<>>]
Texto(s) == [k |-> "str", a |-> 0, b |-> 1, s |-> s]
Ts(dia, hora) == [k |-> "ts", a |-> dia, b |-> hora, s |-> <<>>]

Abs(n) == IF n < 0 THEN -n ELSE n

RECURSIVE Mcd(_, _)
Mcd(x, y) == IF y = 0 THEN x ELSE Mcd(y, x % y)

\* the rational n / d (d # 0) in lowest terms with a positive denominator
Num(n, d) ==
    LET g == Mcd(Abs(n), Abs(d))
        sg == IF d < 0 THEN -1 ELSE 1
    IN [k |-> "num", a |-> sg * (n \div g), b |-> sg * (d \div g), s |-> <<>>]

Entero(n) == Num(n, 1)

\* pd.isna
IsNa(v) == v.k = "null"

\* Python's == 0 on a cell: a text or a timestamp is never equal to 0
EsCero(v) == v.k = "num" /\ v.a = 0

Mul(x, y) == Num(x.a * y.a, x.b * y.b)
Div(x, y) == Num(x.a * y.b, x.b * y.a)
Resta(x, y) == Num(x.a * y.b - y.a * x.b, x.b * y.b)

----------------------------------------------------------------------------
(* Text: str.upper(), str.strip(), pd.to_numeric on a text *)

Minusculas ==
    <<"a", "b", "c", "d", "e", "f", "g", "h", "i", "j", "k", "l", "m",
      "n", "o", "p", "q", "r", "s", "t", "u", "v", "w", "x", "y", "z">>

Mayusculas ==
    <<"A", "B", "C", "D", "E", "F", "G", "H", "I", "J", "K", "L", "M",
      "N", "O", "P", "Q", "R", "S", "T", "U", "V", "W", "X", "Y", "Z">>

UpperChar(c) ==
    IF \E i \in 1..26 : Minusculas[i] = c
    THEN Mayusculas[CHOOSE i \in 1..26 : Minusculas[i] = c]
    ELSE c

Upper(s) == [i \in 1..Len(s) |-> UpperChar(s[i])]

RECURSIVE LStrip(_)
LStrip(s) == IF s # <<>> /\ Head(s) = " " THEN LStrip(Tail(s)) ELSE s

RECURSIVE RStrip(_)
RStrip(s) ==
    IF s # <<>> /\ s[Len(s)] = " " THEN RStrip(SubSeq(s, 1, Len(s) - 1)) ELSE s

Strip(s) == RStrip(LStrip(s))

EsDigito(c) == c \in {"0", "1", "2", "3", "4", "5", "6", "7", "8", "9"}

Digito(c) ==
    CASE c = "0" -> 0 [] c = "1" -> 1 [] c = "2" -> 2 [] c = "3" -> 3
      [] c = "4" -> 4 [] c = "5" -> 5 [] c = "6" -> 6 [] c = "7" -> 7
      [] c = "8" -> 8 [] OTHER -> 9

RECURSIVE ValorDigitos(_)
ValorDigitos(s) ==
    IF s = <<>> THEN 0
    ELSE 10 * ValorDigitos(SubSeq(s, 1, Len(s) - 1)) + Digito(s[Len(s)])

\* str(v) / astype(str) of a cell: a text is itself, a null cell reads "nan"
AsStr(v) ==
    CASE v.k = "str" -> v.s
      [] v.k = "null" -> <<"n", "a", "n">>

\* pd.to_numeric(v, errors='coerce'): a number stays, a text of digits is
\* parsed, everything else is NaN
ToNumeric(v) ==
    CASE v.k = "num" -> v
      [] v.k = "str" ->
            LET t == Strip(v.s)
            IN IF t # <<>> /\ \A i \in 1..Len(t) : EsDigito(t[i])
               THEN Entero(ValorDigitos(t))
               ELSE Nulo
      [] OTHER -> Nulo

----------------------------------------------------------------------------
(* Dates *)

Horas == {0, 1}
Dias == 1..MaxDia
Timestamps == {Ts(d, h) : d \in Dias, h \in Horas}

\* fecha.strftime('%Y-%m-%d'): the calendar day, the time of day dropped
FechaStr(t) == t.a

\* Timestamp comparison t1 <= t2
TsLeq(t1, t2) == t1.a < t2.a \/ (t1.a = t2.a /\ t1.b <= t2.b)

\* pd.to_datetime(v, errors='coerce') on a rate-table date cell
ToDatetimeCoerce(v) == IF v.k = "ts" THEN v ELSE Nulo

\* pd.to_datetime(v) on an order date raises on a text that is no date
ToDatetimeRaises(v) == v.k = "str"


----------------------------------------------------------------------------
(* Column names of the rate table, as texts *)

N_FECHA == <<"F", "E", "C", "H", "A">>
N_DATE == <<"D", "A", "T", "E">>
N_FECHA_CAMBIO == <<"F", "E", "C", "H", "A", "_", "C", "A", "M", "B", "I", "O">>
N_FECHA_TASA == <<"F", "E", "C", "H", "A", "_", "T", "A", "S", "A">>
N_VES_USD == <<"V", "E", "S", "/", "U", "S", "D">>
N_VES_USD2 == <<"V", "E", "S", "_", "U", "S", "D">>
N_COP_USD == <<"C", "O", "P", "/", "U", "S", "D">>
N_COP_USD2 == <<"C", "O", "P", "_", "U", "S", "D">>
N_EUR_USD == <<"E", "U", "R", "/", "U", "S", "D">>
N_EUR_USD2 == <<"E", "U", "R", "_", "U", "S", "D">>
N_VES_EUR == <<"V", "E", "S", "/", "E", "U", "R">>
N_USD == <<"U", "S", "D">>
N_TASA == <<"T", "A", "S", "A">>
N_CAMBIO == <<"C", "A", "M", "B", "I", "O">>
N_VES == <<"V", "E", "S">>
N_COP == <<"C", "O", "P">>
N_EUR == <<"E", "U", "R">>

\* Python's `pat in s` on texts
Contiene(pat, s) ==
    \E i \in 1..(Len(s) - Len(pat) + 1) : SubSeq(s, i, i + Len(pat) - 1) = pat

Minimo(S) == CHOOSE x \in S : \A y \in S : x <= y
Maximo(S) == CHOOSE x \in S : \A y \in S : y <= x

\* the first column (1-based) whose upper-cased name contains one of pats, or 0
PrimeraColumna(cols, pats) ==
    LET hits == {c \in 1..Len(cols) : \E p \in pats : Contiene(p, Upper(cols[c]))}
    IN IF hits = {} THEN 0 ELSE Minimo(hits)

\* columna_fecha_tasa: the date column of the rate table
ColumnaFechaTasa(cols) ==
    LET c == PrimeraColumna(cols, {N_FECHA, N_DATE, N_FECHA_CAMBIO, N_FECHA_TASA})
    IN IF c = 0 THEN 1 ELSE c

\* tasas_buscadas: the name patterns of each currency's rate column
PatronesTasa(divisa) ==
    CASE divisa = "VES" -> {N_VES_USD, N_VES_USD2}
      [] divisa = "COP" -> {N_COP_USD, N_COP_USD2}
      [] OTHER -> {N_EUR_USD, N_EUR_USD2}

\* columnas_tasa: lookup key -> column of the rate table
ColumnasTasa(cols) ==
    LET encontradas == {d \in {"VES", "COP", "EUR"} : PrimeraColumna(cols, PatronesTasa(d)) # 0}
        porDefecto == PrimeraColumna(cols, {N_USD, N_TASA, N_CAMBIO})
    IN IF encontradas # {}
       THEN [d \in encontradas |-> PrimeraColumna(cols, PatronesTasa(d))]
       ELSE IF porDefecto # 0
            THEN [d \in {"DEFAULT"} |-> porDefecto]
            ELSE [d \in {} |-> 0]

\* a column label of the rate table that is not a text (a number or a date
\* in the header row): the columns.str.upper() of leer_tasa leaves NaN there
NoTexto == <<"NaN">>

\* `for col in df_tasa.columns: if any(p in col.upper() ...): ...; break`
\* raises AttributeError when it reaches a label that is not a text
RecorridoFalla(cols, pats) ==
    \E i \in 1..Len(cols) :
        /\ cols[i] = NoTexto
        /\ \A j \in 1..(i - 1) : \A p \in pats : ~Contiene(p, Upper(cols[j]))

\* the three searches over the column labels, in the order of the code
ColumnasTasaFallan(cols) ==
    \/ RecorridoFalla(cols, {N_FECHA, N_DATE, N_FECHA_CAMBIO, N_FECHA_TASA})
    \/ \E d \in {"VES", "COP", "EUR"} : RecorridoFalla(cols, PatronesTasa(d))
    \/ /\ \A d \in {"VES", "COP", "EUR"} : PrimeraColumna(cols, PatronesTasa(d)) = 0
       /\ RecorridoFalla(cols, {N_USD, N_TASA, N_CAMBIO})

----------------------------------------------------------------------------
(* The lookup table: rate rows with a parseable date, sorted by date *)

\* one row of tasas_lookup; col_fecha is columna_fecha_tasa, ct is columnas_tasa
FilaLookup(col_fecha, ct, fila) ==
    LET fecha == ToDatetimeCoerce(fila[col_fecha])
    IN [fecha |-> fecha,
        fecha_str |-> FechaStr(fecha),
        tasas |-> [d \in DOMAIN ct |-> fila[ct[d]]]]

\* df_tasa_clean: the positions of df_tasa whose date parses (dropna)
FilasConFecha(col_fecha, filas) ==
    {i \in 1..Len(filas) : ~IsNa(ToDatetimeCoerce(filas[i][col_fecha]))}

\* sort_values(by=fecha) is not a stable sort: rows that share a date may come
\* out in any order
OrdenadoPorFecha(l) ==
    \A i, j \in 1..Len(l) : i < j => TsLeq(l[i].fecha, l[j].fecha)

\* every df_lookup the build can produce from the rate table
LookupsPosibles(cols, filas) ==
    LET col_fecha == ColumnaFechaTasa(cols)
        ct == ColumnasTasa(cols)
        I == FilasConFecha(col_fecha, filas)
        n == Cardinality(I)
        perms == {p \in [1..n -> I] : \A x, y \in 1..n : x # y => p[x] # p[y]}
    IN {l \in {[x \in 1..n |-> FilaLookup(col_fecha, ct, filas[p[x]])] : p \in perms} :
            OrdenadoPorFecha(l)}

\* df_lookup.columns: a DataFrame built from an empty list has no columns
ColumnasLookup(l) ==
    IF l = <<>> THEN {}
    ELSE {"fecha", "fecha_str"} \cup {d \in DOMAIN l[1].tasas : TRUE}

----------------------------------------------------------------------------
(* buscar_tasa_con_fallback *)

\* str(divisa).upper().strip(), "" for a null currency
DivisaUpper(divisa) == IF IsNa(divisa) THEN <<>> ELSE Strip(Upper(divisa.s))

\* mutant of ColTasaKey: the priority order tries EUR before COP
ColTasaKey_PrioridadCambiada(columnas, divisa_upper) ==
    IF divisa_upper = N_VES THEN "VES"
    ELSE IF divisa_upper = N_COP THEN "COP"
    ELSE IF divisa_upper = N_EUR THEN "EUR"
    ELSE IF "VES" \in columnas THEN "VES"
    ELSE IF "EUR" \in columnas THEN "EUR"
    ELSE IF "COP" \in columnas THEN "COP"
    ELSE IF "DEFAULT" \in columnas THEN "DEFAULT"
    ELSE ""

\* mutant of ColTasaKey: VES, COP and EUR fall back to the priority order
\* when their own column is missing
ColTasaKey_ConRespaldo(columnas, divisa_upper) ==
    IF divisa_upper = N_VES /\ "VES" \in columnas THEN "VES"
    ELSE IF divisa_upper = N_COP /\ "COP" \in columnas THEN "COP"
    ELSE IF divisa_upper = N_EUR /\ "EUR" \in columnas THEN "EUR"
    ELSE IF "VES" \in columnas THEN "VES"
    ELSE IF "COP" \in columnas THEN "COP"
    ELSE IF "EUR" \in columnas THEN "EUR"
    ELSE IF "DEFAULT" \in columnas THEN "DEFAULT"
    ELSE ""

\* col_tasa_key: "VES", "COP", "EUR", "DEFAULT", or "" when no column is available
ColTasaKey(columnas, divisa_upper) ==
    IF divisa_upper = N_VES THEN "VES"
    ELSE IF divisa_upper = N_COP THEN "COP"
    ELSE IF divisa_upper = N_EUR THEN "EUR"
    ELSE IF "VES" \in columnas THEN "VES"
    ELSE IF "COP" \in columnas THEN "COP"
    ELSE IF "EUR" \in columnas THEN "EUR"
    ELSE IF "DEFAULT" \in columnas THEN "DEFAULT"
    ELSE ""

\* fila_exacta: the positions of df_lookup with fecha_str == fecha_str
FilaExacta(l, fecha_str) == {i \in 1..Len(l) : l[i].fecha_str = fecha_str}

\* mutant of FilasAnteriores: the date filter is missing
FilasAnteriores_SinFiltro(l, fecha_dt) == 1..Len(l)

\* filas_anteriores: the positions of df_lookup with fecha <= fecha_dt
FilasAnteriores(l, fecha_dt) == {i \in 1..Len(l) : TsLeq(l[i].fecha, fecha_dt)}

\* fila_exacta.iloc[0]
PrimeraFila(S) == Minimo(S)

\* filas_anteriores.iloc[-1]
UltimaFila(S) == Maximo(S)

\* the position of df_lookup the returned rate is read from, 0 when None is returned
FilaSeleccionada(l, fecha_dt, key) ==
    LET exactas == FilaExacta(l, FechaStr(fecha_dt))
        anteriores == FilasAnteriores(l, fecha_dt)
    IN IF exactas # {} /\ key \in ColumnasLookup(l)
          /\ ~IsNa(l[PrimeraFila(exactas)].tasas[key])
       THEN PrimeraFila(exactas)
       ELSE IF anteriores # {} /\ key \in ColumnasLookup(l)
               /\ ~IsNa(l[UltimaFila(anteriores)].tasas[key])
            THEN UltimaFila(anteriores)
            ELSE 0

buscar_tasa_con_fallback(l, fecha_orden, divisa) ==
    IF IsNa(fecha_orden) THEN Nulo
    ELSE IF ToDatetimeRaises(fecha_orden) THEN Nulo      \* except: return None
    ELSE LET key == ColTasaKey(ColumnasLookup(l), DivisaUpper(divisa))
         IN IF key = "" THEN Nulo
            ELSE IF l = <<>> THEN Nulo    \* df_lookup['fecha_str']: KeyError, except: return None
            ELSE LET i == FilaSeleccionada(l, fecha_orden, key)
                 IN IF i = 0 THEN Nulo ELSE l[i].tasas[key]

----------------------------------------------------------------------------
(* DataFrame columns *)

EnColumnas(cols, c) == \E i \in 1..Len(cols) : cols[i] = c

\* df[c] = ...: a new column is appended, an existing one keeps its place
ConColumna(cols, c) == IF EnColumnas(cols, c) THEN cols ELSE Append(cols, c)

\* mutant of ConCelda: the stage also empties the closure state of the row
ConCelda_BorraEstado(fila, c, v) ==
    [x \in (DOMAIN fila) \cup {c} |->
        IF x = c THEN v ELSE IF x = "ESTADO_CIERRE" THEN Nulo ELSE fila[x]]

\* one row with cell c set to v
ConCelda(fila, c, v) ==
    [x \in (DOMAIN fila) \cup {c} |-> IF x = c THEN v ELSE fila[x]]

\* the first position of c in cols
PosicionDe(cols, c) == Minimo({i \in 1..Len(cols) : cols[i] = c})

\* mutant of Faltantes: the check stops at the first missing column
Faltantes_SoloPrimera(requeridas, cols) ==
    LET orden == <<"PRICE_OVERRIDE", "IMPORTE", "IMPORTE_ASOCIADO", "DIVISA", "TASA",
                   "MONTO OC USD", "MONTO OC ASOCIADO USD", "ESTADO_CIERRE",
                   "FECHA_ORDEN", "SOLICITANTE">>
        faltan == {i \in 1..Len(orden) : orden[i] \in requeridas /\ ~EnColumnas(cols, orden[i])}
    IN IF faltan = {} THEN {} ELSE {orden[Minimo(faltan)]}

\* columnas_faltantes: the required columns that are not in df.columns
Faltantes(requeridas, cols) == {c \in requeridas : ~EnColumnas(cols, c)}

----------------------------------------------------------------------------
(* agregar_columna_tasa *)

\* the TASA cell of one row: None for every row when there is no DIVISA column
TasaDeFila(cols, l, fila) ==
    IF ~EnColumnas(cols, "DIVISA") THEN Nulo
    ELSE buscar_tasa_con_fallback(l, fila["FECHA_ORDEN"], fila["DIVISA"])

AgregarColumnaTasa(sig) ==
    /\ pc = "tasa"
    /\ IF ColumnasTasaFallan(tasa_columns)
       THEN /\ pc' = "error"          \* col.upper(): AttributeError, no column named
            /\ UNCHANGED <<error, df_lookup, df, df_columns>>
       ELSE IF EnColumnas(df_columns, "DIVISA") /\ ~EnColumnas(df_columns, "FECHA_ORDEN")
       THEN /\ pc' = "error"          \* row['FECHA_ORDEN']: KeyError out of apply
            /\ error' = {"FECHA_ORDEN"}
            /\ \E l \in LookupsPosibles(tasa_columns, df_tasa) : df_lookup' = l
            /\ UNCHANGED <<df, df_columns>>
       ELSE /\ \E l \in LookupsPosibles(tasa_columns, df_tasa) :
                  /\ df_lookup' = l
                  /\ df' = [i \in 1..Len(df) |->
                              ConCelda(df[i], "TASA", TasaDeFila(df_columns, l, df[i]))]
            /\ df_columns' = ConColumna(df_columns, "TASA")
            /\ pc' = sig
            /\ UNCHANGED error
    /\ etapas' = Append(etapas, "tasa")
    /\ UNCHANGED <<entradas, servicio, divisores, fila_cabezales>>

----------------------------------------------------------------------------
(* filtrar_cerrados *)

N_CERRADO == <<"C", "E", "R", "R", "A", "D", "O">>

\* astype(str).str.upper().str.strip() of the ESTADO_CIERRE cell
EstadoNormalizado(fila) == Strip(Upper(AsStr(fila["ESTADO_CIERRE"])))

\* mutant of filtrar_cerrados: only the first closed row is removed
filtrar_cerrados_SoloPrimero(filas) ==
    LET cerradas == {i \in 1..Len(filas) : EstadoNormalizado(filas[i]) = N_CERRADO}
    IN IF cerradas = {} THEN filas
       ELSE SubSeq(filas, 1, Minimo(cerradas) - 1)
                \o SubSeq(filas, Minimo(cerradas) + 1, Len(filas))

\* mutant of filtrar_cerrados: the state is compared as written
filtrar_cerrados_SinNormalizar(filas) ==
    LET abierta(fila) == AsStr(fila["ESTADO_CIERRE"]) # N_CERRADO
    IN SelectSeq(filas, abierta)

\* df[mask].copy(): the rows whose normalized state is not CERRADO
filtrar_cerrados(filas) ==
    LET abierta(fila) == EstadoNormalizado(fila) # N_CERRADO
    IN SelectSeq(filas, abierta)

\* one run of filtrar_cerrados on df, started at pc = desde
CorrerFiltro(desde, sig) ==
    /\ pc = desde
    /\ IF Faltantes({"ESTADO_CIERRE"}, df_columns) # {}
       THEN /\ pc' = "error"          \* raise ValueError
            /\ error' = Faltantes({"ESTADO_CIERRE"}, df_columns)
            /\ UNCHANGED df
       ELSE /\ df' = filtrar_cerrados(df)
            /\ pc' = sig
            /\ UNCHANGED error
    /\ etapas' = Append(etapas, "filtrar")
    /\ UNCHANGED <<entradas, servicio, df_lookup, df_columns, divisores, fila_cabezales>>

FiltrarCerrados(sig) == CorrerFiltro("filtrar", sig)

\* filtrar_cerrados called again on its own result
RefiltrarCerrados(sig) == CorrerFiltro("refiltrar", sig)

----------------------------------------------------------------------------
(* agregar_ano_fiscal *)

\* the calendar of the model: day number n (from 1) is in month
\* ((n - 1) div DiasPorMes) mod 12 + 1 of year AnoBase + (n - 1) div (12 * DiasPorMes)
DiasPorMes == 2
AnoBase == 2025

\* fecha_dt.month
MesDe(t) == (((t.a - 1) \div DiasPorMes) % 12) + 1

\* fecha_dt.year
AnoDe(t) == AnoBase + ((t.a - 1) \div (12 * DiasPorMes))

Cifras == <<"0", "1", "2", "3", "4", "5", "6", "7", "8", "9">>

\* str(n) of a natural number
RECURSIVE Digitos(_)
Digitos(n) == IF n < 10 THEN <<Cifras[n + 1]>> ELSE Digitos(n \div 10) \o <<Cifras[(n % 10) + 1]>>

\* mutant of calcular_ano_fiscal: the fiscal year turns over in August
calcular_ano_fiscal_DesdeAgosto(fecha_orden) ==
    IF IsNa(fecha_orden) THEN Nulo
    ELSE IF ToDatetimeRaises(fecha_orden) THEN Nulo
    ELSE IF MesDe(fecha_orden) >= 8
         THEN Texto(Digitos(AnoDe(fecha_orden)) \o <<"-">> \o Digitos(AnoDe(fecha_orden) + 1))
         ELSE Texto(Digitos(AnoDe(fecha_orden) - 1) \o <<"-">> \o Digitos(AnoDe(fecha_orden)))

calcular_ano_fiscal(fecha_orden) ==
    IF IsNa(fecha_orden) THEN Nulo
    ELSE IF ToDatetimeRaises(fecha_orden) THEN Nulo      \* except: return None
    ELSE LET ano == AnoDe(fecha_orden)
             mes == MesDe(fecha_orden)
         IN IF mes > 8
            THEN Texto(Digitos(ano) \o <<"-">> \o Digitos(ano + 1))
            ELSE Texto(Digitos(ano - 1) \o <<"-">> \o Digitos(ano))

AgregarAnoFiscal(sig) ==
    /\ pc = "fiscal"
    /\ IF Faltantes({"FECHA_ORDEN"}, df_columns) # {}
       THEN /\ pc' = "error"          \* raise ValueError
            /\ error' = Faltantes({"FECHA_ORDEN"}, df_columns)
            /\ UNCHANGED <<df, df_columns>>
       ELSE /\ df' = [i \in 1..Len(df) |->
                        ConCelda(df[i], "AÑO FISCAL", calcular_ano_fiscal(df[i]["FECHA_ORDEN"]))]
            /\ df_columns' = ConColumna(df_columns, "AÑO FISCAL")
            /\ pc' = sig
            /\ UNCHANGED error
    /\ etapas' = Append(etapas, "fiscal")
    /\ UNCHANGED <<entradas, servicio, df_lookup, divisores, fila_cabezales>>

----------------------------------------------------------------------------
(* agregar_columna_area *)

\* mutant of buscar_area: the requester is looked up as written
buscar_area_SinNormalizar(dict, solicitante) ==
    IF IsNa(solicitante) THEN Nulo
    ELSE LET solicitante_str == AsStr(solicitante)
         IN IF solicitante_str \in DOMAIN dict THEN Texto(dict[solicitante_str]) ELSE Nulo

\* areas_dict.get(str(solicitante).upper().strip()), None for a null requester
buscar_area(dict, solicitante) ==
    IF IsNa(solicitante) THEN Nulo
    ELSE LET solicitante_str == Strip(Upper(AsStr(solicitante)))
         IN IF solicitante_str \in DOMAIN dict THEN Texto(dict[solicitante_str]) ELSE Nulo

AgregarColumnaArea(sig) ==
    /\ pc = "area"
    /\ IF Faltantes({"SOLICITANTE"}, df_columns) # {}
       THEN /\ pc' = "error"          \* raise ValueError
            /\ error' = Faltantes({"SOLICITANTE"}, df_columns)
            /\ UNCHANGED <<df, df_columns>>
       ELSE /\ df' = [i \in 1..Len(df) |->
                        ConCelda(df[i], "AREA",
                                 IF DOMAIN areas_dict = {} THEN Nulo     \* not areas_dict
                                 ELSE buscar_area(areas_dict, df[i]["SOLICITANTE"]))]
            /\ df_columns' = ConColumna(df_columns, "AREA")
            /\ pc' = sig
            /\ UNCHANGED error
    /\ etapas' = Append(etapas, "area")
    /\ UNCHANGED <<entradas, servicio, df_lookup, divisores, fila_cabezales>>

----------------------------------------------------------------------------
(* agregar_montos_oc *)

\* mutant of calcular_monto_oc: a null operand counts as 0
calcular_monto_oc_NuloComoCero(price_override, importe) ==
    LET p == IF IsNa(price_override) THEN Entero(0) ELSE ToNumeric(price_override)
        m == IF IsNa(importe) THEN Entero(0) ELSE ToNumeric(importe)
    IN IF IsNa(p) \/ IsNa(m) THEN Nulo ELSE Mul(p, m)

calcular_monto_oc(price_override, importe) ==
    IF IsNa(price_override) \/ IsNa(importe) THEN Nulo
    ELSE LET p == ToNumeric(price_override)
             m == ToNumeric(importe)
         IN IF IsNa(p) \/ IsNa(m) THEN Nulo ELSE Mul(p, m)

\* mutant of calcular_monto_oc_usd: USD is not recognized and goes the way of
\* the other currencies
calcular_monto_oc_usd_SinUsd(monto_oc, divisa, tasa) ==
    IF IsNa(monto_oc) THEN [valor |-> Nulo, divisor |-> Nulo]
    ELSE LET tasa_num == ToNumeric(tasa)
         IN IF ~IsNa(tasa) /\ ~EsCero(tasa) /\ ~IsNa(tasa_num) /\ ~EsCero(tasa_num)
            THEN [valor |-> Div(monto_oc, tasa_num), divisor |-> tasa_num]
            ELSE [valor |-> Nulo, divisor |-> Nulo]

\* mutant of calcular_monto_oc_usd: the amount is multiplied by the rate
calcular_monto_oc_usd_Multiplica(monto_oc, divisa, tasa) ==
    IF IsNa(monto_oc) THEN [valor |-> Nulo, divisor |-> Nulo]
    ELSE LET tasa_num == ToNumeric(tasa)
         IN IF DivisaUpper(divisa) = N_USD THEN [valor |-> monto_oc, divisor |-> Nulo]
            ELSE IF ~IsNa(tasa) /\ ~EsCero(tasa) /\ ~IsNa(tasa_num) /\ ~EsCero(tasa_num)
            THEN [valor |-> Mul(monto_oc, tasa_num), divisor |-> tasa_num]
            ELSE [valor |-> Nulo, divisor |-> Nulo]

\* [valor: the value returned, divisor: the rate the amount was divided by,
\* null when no division took place]
calcular_monto_oc_usd(monto_oc, divisa, tasa) ==
    IF IsNa(monto_oc) THEN [valor |-> Nulo, divisor |-> Nulo]
    ELSE LET divisa_str == DivisaUpper(divisa)
             tasa_num == ToNumeric(tasa)
         IN IF divisa_str = N_USD THEN [valor |-> monto_oc, divisor |-> Nulo]
            ELSE IF divisa_str \in {N_VES, N_COP, N_EUR}
            THEN IF IsNa(tasa) \/ EsCero(tasa) THEN [valor |-> Nulo, divisor |-> Nulo]
                 ELSE IF IsNa(tasa_num) \/ EsCero(tasa_num)
                      THEN [valor |-> Nulo, divisor |-> Nulo]
                      ELSE [valor |-> Div(monto_oc, tasa_num), divisor |-> tasa_num]
            ELSE IF ~IsNa(tasa) /\ ~EsCero(tasa) /\ ~IsNa(tasa_num) /\ ~EsCero(tasa_num)
                 THEN [valor |-> Div(monto_oc, tasa_num), divisor |-> tasa_num]
                 ELSE [valor |-> Nulo, divisor |-> Nulo]

MontoOcDe(fila) == calcular_monto_oc(fila["PRICE_OVERRIDE"], fila["IMPORTE"])

MontoOcUsdDe(fila) == calcular_monto_oc_usd(MontoOcDe(fila), fila["DIVISA"], fila["TASA"])

AgregarMontosOc(sig) ==
    /\ pc = "montos"
    /\ IF Faltantes({"PRICE_OVERRIDE", "IMPORTE", "DIVISA", "TASA"}, df_columns) # {}
       THEN /\ pc' = "error"          \* raise ValueError
            /\ error' = Faltantes({"PRICE_OVERRIDE", "IMPORTE", "DIVISA", "TASA"}, df_columns)
            /\ UNCHANGED <<df, df_columns, divisores>>
       ELSE /\ df' = [i \in 1..Len(df) |->
                        ConCelda(ConCelda(df[i], "MONTO OC", MontoOcDe(df[i])),
                                 "MONTO OC USD", MontoOcUsdDe(df[i]).valor)]
            /\ df_columns' = ConColumna(ConColumna(df_columns, "MONTO OC"), "MONTO OC USD")
            /\ divisores' = divisores \cup
                    {[etapa |-> "montos", fila |-> i, divisor |-> MontoOcUsdDe(df[i]).divisor] :
                        i \in {j \in 1..Len(df) : ~IsNa(MontoOcUsdDe(df[j]).divisor)}}
            /\ pc' = sig
            /\ UNCHANGED error
    /\ etapas' = Append(etapas, "montos")
    /\ UNCHANGED <<entradas, servicio, df_lookup, fila_cabezales>>

----------------------------------------------------------------------------
(* agregar_montos_oc_asociado *)

\* mutant of calcular_monto_oc_asociado: a text operand is not converted
calcular_monto_oc_asociado_SinConversion(price_override, importe_asociado) ==
    IF price_override.k # "num" \/ importe_asociado.k # "num" THEN Nulo
    ELSE Mul(importe_asociado, price_override)

calcular_monto_oc_asociado(price_override, importe_asociado) ==
    IF IsNa(price_override) \/ IsNa(importe_asociado) THEN Nulo
    ELSE LET p == ToNumeric(price_override)
             m == ToNumeric(importe_asociado)
         IN IF IsNa(p) \/ IsNa(m) THEN Nulo ELSE Mul(m, p)

\* mutant of calcular_monto_oc_asociado_usd: USD is not recognized and goes
\* the way of the other currencies
calcular_monto_oc_asociado_usd_SinUsd(monto_oc_asociado, divisa, tasa) ==
    IF IsNa(monto_oc_asociado) THEN [valor |-> Nulo, divisor |-> Nulo]
    ELSE LET tasa_num == ToNumeric(tasa)
         IN IF ~IsNa(tasa) /\ ~EsCero(tasa) /\ ~IsNa(tasa_num) /\ ~EsCero(tasa_num)
            THEN [valor |-> Div(monto_oc_asociado, tasa_num), divisor |-> tasa_num]
            ELSE [valor |-> Nulo, divisor |-> Nulo]

calcular_monto_oc_asociado_usd(monto_oc_asociado, divisa, tasa) ==
    IF IsNa(monto_oc_asociado) THEN [valor |-> Nulo, divisor |-> Nulo]
    ELSE LET divisa_str == DivisaUpper(divisa)
             tasa_num == ToNumeric(tasa)
         IN IF divisa_str = N_USD THEN [valor |-> monto_oc_asociado, divisor |-> Nulo]
            ELSE IF divisa_str \in {N_VES, N_COP, N_EUR}
            THEN IF IsNa(tasa) \/ EsCero(tasa) THEN [valor |-> Nulo, divisor |-> Nulo]
                 ELSE IF IsNa(tasa_num) \/ EsCero(tasa_num)
                      THEN [valor |-> Nulo, divisor |-> Nulo]
                      ELSE [valor |-> Div(monto_oc_asociado, tasa_num), divisor |-> tasa_num]
            ELSE IF ~IsNa(tasa) /\ ~EsCero(tasa) /\ ~IsNa(tasa_num) /\ ~EsCero(tasa_num)
                 THEN [valor |-> Div(monto_oc_asociado, tasa_num), divisor |-> tasa_num]
                 ELSE [valor |-> Nulo, divisor |-> Nulo]

MontoAsociadoDe(fila) ==
    calcular_monto_oc_asociado(fila["PRICE_OVERRIDE"], fila["IMPORTE_ASOCIADO"])

MontoAsociadoUsdDe(fila) ==
    calcular_monto_oc_asociado_usd(MontoAsociadoDe(fila), fila["DIVISA"], fila["TASA"])

AgregarMontosOcAsociado(sig) ==
    /\ pc = "asociado"
    /\ IF Faltantes({"PRICE_OVERRIDE", "IMPORTE_ASOCIADO", "DIVISA", "TASA"}, df_columns) # {}
       THEN /\ pc' = "error"          \* raise ValueError
            /\ error' = Faltantes({"PRICE_OVERRIDE", "IMPORTE_ASOCIADO", "DIVISA", "TASA"},
                                  df_columns)
            /\ UNCHANGED <<df, df_columns, divisores>>
       ELSE /\ df' = [i \in 1..Len(df) |->
                        ConCelda(ConCelda(df[i], "MONTO OC ASOCIADO", MontoAsociadoDe(df[i])),
                                 "MONTO OC ASOCIADO USD", MontoAsociadoUsdDe(df[i]).valor)]
            /\ df_columns' = ConColumna(ConColumna(df_columns, "MONTO OC ASOCIADO"),
                                        "MONTO OC ASOCIADO USD")
            /\ divisores' = divisores \cup
                    {[etapa |-> "asociado", fila |-> i,
                      divisor |-> MontoAsociadoUsdDe(df[i]).divisor] :
                        i \in {j \in 1..Len(df) : ~IsNa(MontoAsociadoUsdDe(df[j]).divisor)}}
            /\ pc' = sig
            /\ UNCHANGED error
    /\ etapas' = Append(etapas, "asociado")
    /\ UNCHANGED <<entradas, servicio, df_lookup, fila_cabezales>>

----------------------------------------------------------------------------
(* agregar_monto_real_deuda *)

\* a null operand counts as 0, and so does one pd.to_numeric cannot convert
OperandoDeuda(v) ==
    IF IsNa(v) THEN Entero(0)
    ELSE IF IsNa(ToNumeric(v)) THEN Entero(0) ELSE ToNumeric(v)

\* mutant of calcular_monto_real_deuda: null as soon as one operand is null
calcular_monto_real_deuda_NuloSiAlguno(monto_oc_usd, monto_oc_asociado_usd) ==
    IF IsNa(monto_oc_usd) \/ IsNa(monto_oc_asociado_usd) THEN Nulo
    ELSE Resta(OperandoDeuda(monto_oc_usd), OperandoDeuda(monto_oc_asociado_usd))

calcular_monto_real_deuda(monto_oc_usd, monto_oc_asociado_usd) ==
    IF IsNa(monto_oc_usd) /\ IsNa(monto_oc_asociado_usd) THEN Nulo
    ELSE Resta(OperandoDeuda(monto_oc_usd), OperandoDeuda(monto_oc_asociado_usd))

AgregarMontoRealDeuda(sig) ==
    /\ pc = "deuda"
    /\ IF Faltantes({"MONTO OC USD", "MONTO OC ASOCIADO USD"}, df_columns) # {}
       THEN /\ pc' = "error"          \* raise ValueError
            /\ error' = Faltantes({"MONTO OC USD", "MONTO OC ASOCIADO USD"}, df_columns)
            /\ UNCHANGED <<df, df_columns>>
       ELSE /\ df' = [i \in 1..Len(df) |->
                        ConCelda(df[i], "MONTO REAL DEUDA",
                                 calcular_monto_real_deuda(df[i]["MONTO OC USD"],
                                                           df[i]["MONTO OC ASOCIADO USD"]))]
            /\ df_columns' = ConColumna(df_columns, "MONTO REAL DEUDA")
            /\ pc' = sig
            /\ UNCHANGED error
    /\ etapas' = Append(etapas, "deuda")
    /\ UNCHANGED <<entradas, servicio, df_lookup, divisores, fila_cabezales>>

----------------------------------------------------------------------------
(* Header detection: detectar_cabezales and detectar_cabezales_tasa *)

NumFilasRevisar == 5          \* num_filas_revisar of detectar_cabezales
NumFilasRevisarTasa == 10     \* num_filas_revisar of detectar_cabezales_tasa

\* COLUMNAS_ESPERADAS as texts
NombresEsperados ==
    <<<<"N", "U", "M", "E", "R", "O", "_", "O", "C">>,
      <<"P", "R", "O", "V", "E", "E", "D", "O", "R">>,
      <<"S", "U", "C", "U", "R", "S", "A", "L">>,
      <<"D", "I", "V", "I", "S", "A">>,
      <<"P", "R", "I", "C", "E", "_", "O", "V", "E", "R", "R", "I", "D", "E">>,
      <<"I", "M", "P", "O", "R", "T", "E">>,
      <<"I", "M", "P", "O", "R", "T", "E", "_", "R", "E", "C", "I", "B", "I", "D", "O">>,
      <<"I", "M", "P", "O", "R", "T", "E", "_", "A", "S", "O", "C", "I", "A", "D", "O">>,
      <<"F", "E", "C", "H", "A", "_", "O", "R", "D", "E", "N">>,
      <<"U", "N", "I", "D", "A", "D", "_", "M", "E", "D", "I", "D", "A">>,
      <<"D", "E", "S", "C", "R", "I", "P", "C", "I", "O", "N">>,
      <<"C", "U", "E", "N", "T", "A", "_", "C", "A", "R", "G", "O">>,
      <<"S", "O", "L", "I", "C", "I", "T", "A", "N", "T", "E">>,
      <<"E", "S", "T", "A", "D", "O", "_", "C", "I", "E", "R", "R", "E">>,
      <<"A", "P", "R", "O", "B", "A", "D", "O", "R">>,
      <<"F", "E", "C", "H", "A", "_", "C", "I", "E", "R", "R", "E">>>>

\* columnas_esperadas_tasa
columnas_esperadas_tasa ==
    <<<<"F", "E", "C", "H", "A">>,
      <<"V", "E", "S", "/", "U", "S", "D">>,
      <<"V", "E", "S", "/", "E", "U", "R">>,
      <<"C", "O", "P", "/", "U", "S", "D">>,
      <<"E", "U", "R", "/", "U", "S", "D">>,
      <<"C", "O", "P", "/", "V", "E", "S">>,
      <<"V", "E", "S", "/", "C", "O", "F">>>>

\* astype(str) of a cell of the raw sheet: a whole number reads as its digits
CeldaComoTexto(v) == IF v.k = "num" THEN Digitos(v.a) ELSE AsStr(v)

\* set(df.iloc[i].astype(str).str.upper().str.strip().values)
ValoresFila(fila) == {Strip(Upper(CeldaComoTexto(fila[j]))) : j \in 1..Len(fila)}

\* {col.upper().strip() for col in esperadas}
Normalizadas(esperadas) == {Strip(Upper(esperadas[i])) : i \in 1..Len(esperadas)}

\* range(min(num_filas_revisar, len(df))), as 1-based positions
FilasRevisadas(raw, num_filas_revisar) ==
    1..(IF num_filas_revisar < Len(raw) THEN num_filas_revisar ELSE Len(raw))

\* mutant of detectar_cabezales: every row of the sheet is scanned
detectar_cabezales_SinLimite(raw) ==
    LET columnas_esperadas_normalizadas == Normalizadas(NombresEsperados)
        hits == {i \in 1..Len(raw) : columnas_esperadas_normalizadas \subseteq ValoresFila(raw[i])}
    IN IF hits = {} THEN 0 ELSE Minimo(hits) - 1

detectar_cabezales(raw) ==
    LET columnas_esperadas_normalizadas == Normalizadas(NombresEsperados)
        hits == {i \in FilasRevisadas(raw, NumFilasRevisar) :
                    columnas_esperadas_normalizadas \subseteq ValoresFila(raw[i])}
    IN IF hits = {} THEN 0 ELSE Minimo(hits) - 1

detectar_cabezales_tasa(raw) ==
    LET columnas_esperadas_normalizadas == Normalizadas(columnas_esperadas_tasa)
        hits == {i \in FilasRevisadas(raw, NumFilasRevisarTasa) :
                    Cardinality(columnas_esperadas_normalizadas
                                \cap ValoresFila(raw[i])) >= 3}
    IN IF hits = {} THEN 0 ELSE Minimo(hits) - 1

DetectarCabezales ==
    /\ pc = "cabezales"
    /\ fila_cabezales' = detectar_cabezales(df_raw)
    /\ etapas' = Append(etapas, "cabezales")
    /\ pc' = "fin"
    /\ UNCHANGED <<entradas, servicio, df_lookup, df_columns, df, divisores, error>>

DetectarCabezalesTasa ==
    /\ pc = "cabezales_tasa"
    /\ fila_cabezales' = detectar_cabezales_tasa(df_raw)
    /\ etapas' = Append(etapas, "cabezales_tasa")
    /\ pc' = "fin"
    /\ UNCHANGED <<entradas, servicio, df_lookup, df_columns, df, divisores, error>>

----------------------------------------------------------------------------
(* leer_ordenes_compra and verificar_columnas *)

\* COLUMNAS_ESPERADAS: the 16 columns of the orders file
COLUMNAS_ESPERADAS ==
    <<"NUMERO_OC", "PROVEEDOR", "SUCURSAL", "DIVISA", "PRICE_OVERRIDE", "IMPORTE",
      "IMPORTE_RECIBIDO", "IMPORTE_ASOCIADO", "FECHA_ORDEN", "UNIDAD_MEDIDA",
      "DESCRIPCION", "CUENTA_CARGO", "SOLICITANTE", "ESTADO_CIERRE", "APROBADOR",
      "FECHA_CIERRE">>

N_Unnamed == <<"U", "n", "n", "a", "m", "e", "d", ":", " ">>

\* how many cells before position j of the header row hold the same text
Repetidas(fila, j) ==
    Cardinality({i \in 1..(j - 1) : fila[i] = fila[j]})

\* the label pd.read_excel(header=fila_cabezales) gives column j: the text of
\* the header cell, with ".n" appended when it repeats an earlier one;
\* "Unnamed: j" for an empty cell; a number stays a number, not a text
EtiquetaLeida(fila, j) ==
    CASE fila[j].k = "str" ->
            IF Repetidas(fila, j) = 0 THEN fila[j].s
            ELSE fila[j].s \o <<".">> \o Digitos(Repetidas(fila, j))
      [] fila[j].k = "null" -> N_Unnamed \o Digitos(j - 1)
      [] OTHER -> NoTexto

\* df.columns.str.upper().str.strip(): a label that is not a text becomes NaN
ColumnasLeidas(raw, cabezales) ==
    IF raw = <<>> THEN <<>>
    ELSE [j \in 1..Len(raw[cabezales + 1]) |->
            IF EtiquetaLeida(raw[cabezales + 1], j) = NoTexto THEN NoTexto
            ELSE Strip(Upper(EtiquetaLeida(raw[cabezales + 1], j)))]

\* columnas_df == columnas_esperadas
verificar_columnas(cols) ==
    {Strip(Upper(cols[j])) : j \in 1..Len(cols)} = Normalizadas(NombresEsperados)

\* the name of a column of a table that passed verificar_columnas
NombreColumna(etiqueta) ==
    COLUMNAS_ESPERADAS[CHOOSE k \in 1..Len(NombresEsperados) : NombresEsperados[k] = etiqueta]

\* the rows below the header row, each indexed by column name (of two
\* columns with the same name the row keeps the cell of the last one)
FilasLeidas(raw, cabezales, cols) ==
    LET pos == [k \in 1..Len(NombresEsperados) |->
                   Maximo({j \in 1..Len(cols) : cols[j] = NombresEsperados[k]})]
        fila(i) == [k \in 1..Len(NombresEsperados) |-> raw[cabezales + 1 + i][pos[k]]]
    IN [i \in 1..(Len(raw) - cabezales - 1) |->
           [c \in {COLUMNAS_ESPERADAS[k] : k \in 1..Len(COLUMNAS_ESPERADAS)} |->
               fila(i)[CHOOSE k \in 1..Len(COLUMNAS_ESPERADAS) : COLUMNAS_ESPERADAS[k] = c]]]

LeerOrdenesCompra(sig) ==
    /\ pc = "leer_ordenes"
    /\ fila_cabezales' = detectar_cabezales(df_raw)
    /\ LET cols == ColumnasLeidas(df_raw, fila_cabezales')
       IN IF \E j \in 1..Len(cols) : cols[j] = NoTexto
          THEN /\ pc' = "error"     \* col.upper(): AttributeError
               /\ UNCHANGED <<df, df_columns>>
          ELSE IF ~verificar_columnas(cols)
          THEN /\ pc' = "error"     \* ValueError: the message names no column
               /\ UNCHANGED <<df, df_columns>>
          ELSE /\ df_columns' = [j \in 1..Len(cols) |-> NombreColumna(cols[j])]
               /\ df' = FilasLeidas(df_raw, fila_cabezales', cols)
               /\ pc' = sig
    /\ error' = {}
    /\ etapas' = Append(etapas, "leer_ordenes")
    /\ UNCHANGED <<entradas, servicio, df_lookup, divisores>>

----------------------------------------------------------------------------
(* The web service: POST /generar-deuda and POST /generar-deuda/stream     *)

\* the table of a run and what the stages derive from it
corrida == <<df_lookup, df_columns, df, divisores, etapas, error, fila_cabezales>>

\* where a step goes on: procesar_archivos makes the next call, the
\* generator of the streaming endpoint reaches its next yield
Sig(directo, evento) == IF peticion.endpoint = "stream" THEN evento ELSE directo

\* the finally block: every file of temp_dir is removed, then the directory
Limpiar == [estado |-> "borrado", archivos |-> {}]

SinResponder ==
    [codigo |-> 0, status |-> "", filas |-> 0, total_ejecuciones |-> 0, archivos |-> <<>>]

Responde(codigo, status, filas) ==
    [codigo |-> codigo, status |-> status, filas |-> filas, total_ejecuciones |-> 0,
     archivos |-> <<>>]

\* the validations, tempfile.mkdtemp() and the two save() calls.  In
\* /generar-deuda the saves are inside the try; in /generar-deuda/stream they
\* run before the generator exists and outside any try
Iniciar ==
    /\ pc = "inicio"
    /\ peticion.endpoint \in {"generar", "stream"}
    /\ IF ~peticion.archivos
       THEN /\ respuesta' = Responde(400, "error", 0)
            /\ pc' = "fin"
            /\ UNCHANGED temp_dir
       ELSE IF "guardar" \in entorno.fallas
       THEN /\ respuesta' = Responde(500, "error", 0)
            /\ pc' = "fin"
            /\ IF peticion.endpoint = "generar"
               THEN temp_dir' = Limpiar
               ELSE \E guardados \in {{}, {"ordenes"}} :
                       temp_dir' = [estado |-> "creado", archivos |-> guardados]
       ELSE /\ temp_dir' = [estado |-> "creado", archivos |-> {"ordenes", "tasa"}]
            /\ IF peticion.endpoint = "generar"
               THEN /\ pc' = "leer_ordenes"
                    /\ UNCHANGED respuesta
               ELSE /\ pc' = "gen_inicio"      \* Response(stream_with_context(generate()))
                    /\ respuesta' = Responde(200, "stream", 0)
    /\ UNCHANGED <<entradas, corrida, peticion, entorno, subidas, eventos>>

\* leer_tasa: the rate table of the run is the table it returns; it raises
\* when the file cannot be read
LeerTasa(sig) ==
    /\ pc = "leer_tasa"
    /\ pc' = IF "leer_tasa" \in entorno.fallas THEN "error" ELSE sig
    /\ error' = {}
    /\ etapas' = Append(etapas, "leer_tasa")
    /\ UNCHANGED <<entradas, servicio, df_lookup, df_columns, df, divisores, fila_cabezales>>

\* pd.ExcelWriter(ruta_salida) and aplicar_estilos_excel: the output file
EscribirExcel(sig) ==
    /\ pc = "excel"
    /\ IF "excel" \in entorno.fallas
       THEN /\ pc' = "error"
            /\ UNCHANGED temp_dir
       ELSE /\ pc' = sig
            /\ temp_dir' = [temp_dir EXCEPT !.archivos =
                               IF "salida" \in entorno.fallas THEN @ ELSE @ \cup {"salida"}]
    /\ error' = {}
    /\ etapas' = Append(etapas, "excel")
    /\ UNCHANGED <<entradas, df_lookup, df_columns, df, divisores, fila_cabezales,
                   peticion, entorno, subidas, eventos, respuesta>>

\* /generar-deuda: if not os.path.exists(ruta_salida): return 500
VerificarSalida ==
    /\ pc = "existe"
    /\ IF "salida" \in temp_dir.archivos
       THEN /\ pc' = "bigquery"
            /\ UNCHANGED <<respuesta, temp_dir>>
       ELSE /\ respuesta' = Responde(500, "error", 0)
            /\ temp_dir' = Limpiar
            /\ pc' = "fin"
    /\ UNCHANGED <<entradas, corrida, peticion, entorno, subidas, eventos>>

\* mutant of SubirBigQuery: a failed upload raises
SubirBigQuery_Propaga(sig) ==
    /\ pc = "bigquery"
    /\ IF entorno.GCP_PROJECT_ID
       THEN /\ subidas' = Append(subidas, [destino |-> "bigquery",
                                           ok |-> "bigquery" \notin entorno.fallas])
            /\ pc' = IF "bigquery" \in entorno.fallas THEN "error" ELSE sig
       ELSE /\ pc' = sig
            /\ UNCHANGED subidas
    /\ UNCHANGED <<entradas, corrida, peticion, entorno, temp_dir, eventos, respuesta>>

\* preparar_dataframe_bigquery on a copy and, if GCP_PROJECT_ID is set,
\* subir_a_bigquery, which returns False on any exception
SubirBigQuery(sig) ==
    /\ pc = "bigquery"
    /\ IF entorno.GCP_PROJECT_ID
       THEN subidas' = Append(subidas, [destino |-> "bigquery",
                                        ok |-> "bigquery" \notin entorno.fallas])
       ELSE UNCHANGED subidas
    /\ pc' = sig
    /\ UNCHANGED <<entradas, corrida, peticion, entorno, temp_dir, eventos, respuesta>>

\* if GCS_BUCKET_NAME is set, subir_excel_a_cloud_storage, which returns
\* None on any exception
SubirStorage(sig) ==
    /\ pc = "storage"
    /\ IF entorno.GCS_BUCKET_NAME
       THEN subidas' = Append(subidas, [destino |-> "storage",
                                        ok |-> /\ "storage" \notin entorno.fallas
                                               /\ "salida" \in temp_dir.archivos])
       ELSE UNCHANGED subidas
    /\ pc' = sig
    /\ UNCHANGED <<entradas, corrida, peticion, entorno, temp_dir, eventos, respuesta>>

\* /generar-deuda: return jsonify(respuesta), 200, then the finally block
Responder ==
    /\ pc = "responder"
    /\ respuesta' = Responde(200, "success", Len(df))
    /\ temp_dir' = Limpiar
    /\ pc' = "fin"
    /\ UNCHANGED <<entradas, corrida, peticion, entorno, subidas, eventos>>

\* mutant of PASOS: the fiscal-year step reports the percent of the filter
PASOS_PorcentajeRepetido ==
    {[de |-> "gen_inicio", percent |-> 5, a |-> "leer_ordenes"],
     [de |-> "ev15", percent |-> 15, a |-> "ev20"],
     [de |-> "ev20", percent |-> 20, a |-> "leer_tasa"],
     [de |-> "ev25", percent |-> 25, a |-> "ev30"],
     [de |-> "ev30", percent |-> 30, a |-> "filtrar"],
     [de |-> "ev35", percent |-> 30, a |-> "fiscal"],
     [de |-> "ev40", percent |-> 40, a |-> "tasa"],
     [de |-> "ev50", percent |-> 50, a |-> "area"],
     [de |-> "ev60", percent |-> 60, a |-> "montos"],
     [de |-> "ev65", percent |-> 65, a |-> "asociado"],
     [de |-> "ev70", percent |-> 70, a |-> "deuda"],
     [de |-> "ev75", percent |-> 75, a |-> "excel"],
     [de |-> "ev85", percent |-> 85, a |-> "bigquery"],
     [de |-> "ev92", percent |-> 92, a |-> "storage"]}

\* the progress events of generate(): where the generator is when it
\* yields, the percent of the event, what it runs when it is resumed
PASOS ==
    {[de |-> "gen_inicio", percent |-> 5, a |-> "leer_ordenes"],
     [de |-> "ev15", percent |-> 15, a |-> "ev20"],
     [de |-> "ev20", percent |-> 20, a |-> "leer_tasa"],
     [de |-> "ev25", percent |-> 25, a |-> "ev30"],
     [de |-> "ev30", percent |-> 30, a |-> "filtrar"],
     [de |-> "ev35", percent |-> 35, a |-> "fiscal"],
     [de |-> "ev40", percent |-> 40, a |-> "tasa"],
     [de |-> "ev50", percent |-> 50, a |-> "area"],
     [de |-> "ev60", percent |-> 60, a |-> "montos"],
     [de |-> "ev65", percent |-> 65, a |-> "asociado"],
     [de |-> "ev70", percent |-> 70, a |-> "deuda"],
     [de |-> "ev75", percent |-> 75, a |-> "excel"],
     [de |-> "ev85", percent |-> 85, a |-> "bigquery"],
     [de |-> "ev92", percent |-> 92, a |-> "storage"]}

\* yield sse_event({"type": "progress", ...}); the events 85 and 92 are
\* yielded only if GCP_PROJECT_ID and GCS_BUCKET_NAME are set
Emitir ==
    /\ \E p \in PASOS :
          /\ pc = p.de
          /\ p.de = "ev85" => entorno.GCP_PROJECT_ID
          /\ p.de = "ev92" => entorno.GCS_BUCKET_NAME
          /\ eventos' = Append(eventos, [type |-> "progress", percent |-> p.percent])
          /\ pc' = p.a
    /\ UNCHANGED <<entradas, corrida, peticion, entorno, temp_dir, subidas, respuesta>>

\* if project_id: ... / if bucket_name: ... not taken
Omitir ==
    /\ \/ pc = "ev85" /\ ~entorno.GCP_PROJECT_ID /\ pc' = "ev92"
       \/ pc = "ev92" /\ ~entorno.GCS_BUCKET_NAME /\ pc' = "ev100"
    /\ UNCHANGED <<entradas, corrida, servicio>>

\* yield sse_event({"type": "complete", ..., "percent": 100})
EmitirComplete ==
    /\ pc = "ev100"
    /\ eventos' = Append(eventos, [type |-> "complete", percent |-> 100, filas |-> Len(df)])
    /\ pc' = "tras_final"
    /\ UNCHANGED <<entradas, corrida, peticion, entorno, temp_dir, subidas, respuesta>>

\* mutant of ManejarError: the failure is reported as a success
ManejarError_ComoExito ==
    /\ pc = "error"
    /\ IF peticion.endpoint = "generar"
       THEN /\ respuesta' = Responde(200, "success", Len(df))
            /\ temp_dir' = Limpiar
            /\ pc' = "fin"
            /\ UNCHANGED eventos
       ELSE /\ eventos' = Append(eventos, [type |-> "complete", percent |-> 100,
                                           filas |-> Len(df)])
            /\ pc' = "tras_final"
            /\ UNCHANGED <<respuesta, temp_dir>>
    /\ UNCHANGED <<entradas, corrida, peticion, entorno, subidas>>

\* except Exception: /generar-deuda answers 500 and runs the finally block;
\* the generator yields the error event
ManejarError ==
    /\ pc = "error"
    /\ IF peticion.endpoint = "generar"
       THEN /\ respuesta' = Responde(500, "error", 0)
            /\ temp_dir' = Limpiar
            /\ pc' = "fin"
            /\ UNCHANGED eventos
       ELSE /\ eventos' = Append(eventos, [type |-> "error"])
            /\ pc' = "tras_final"
            /\ UNCHANGED <<respuesta, temp_dir>>
    /\ UNCHANGED <<entradas, corrida, peticion, entorno, subidas>>

\* the generator is resumed after its last event: the finally block
Terminar ==
    /\ pc = "tras_final"
    /\ temp_dir' = Limpiar
    /\ pc' = "fin"
    /\ UNCHANGED <<entradas, corrida, peticion, entorno, subidas, eventos, respuesta>>

\* the positions where the generator is suspended at a yield
Suspendido ==
    \/ \E p \in PASOS : pc = p.a
    \/ pc = "tras_final"

\* the response is closed by the server (the client went away).  A
\* generator suspended at a yield gets GeneratorExit and runs its finally
\* block; a generator that was never started is closed without running
\* any of its code
Cerrar ==
    /\ peticion.endpoint = "stream"
    /\ \/ /\ pc = "gen_inicio"
          /\ UNCHANGED temp_dir
       \/ /\ Suspendido
          /\ temp_dir' = Limpiar
    /\ pc' = "cerrado"
    /\ UNCHANGED <<entradas, corrida, peticion, entorno, subidas, eventos, respuesta>>

\* a request from its arrival to the end of its response
NextServicio ==
    \/ Iniciar
    \/ LeerOrdenesCompra(Sig("leer_tasa", "ev15"))
    \/ LeerTasa(Sig("filtrar", "ev25"))
    \/ FiltrarCerrados(Sig("fiscal", "ev35"))
    \/ AgregarAnoFiscal(Sig("tasa", "ev40"))
    \/ AgregarColumnaTasa(Sig("area", "ev50"))
    \/ AgregarColumnaArea(Sig("montos", "ev60"))
    \/ AgregarMontosOc(Sig("asociado", "ev65"))
    \/ AgregarMontosOcAsociado(Sig("deuda", "ev70"))
    \/ AgregarMontoRealDeuda(Sig("excel", "ev75"))
    \/ EscribirExcel(Sig("existe", "ev85"))
    \/ VerificarSalida
    \/ SubirBigQuery(Sig("storage", "ev92"))
    \/ SubirStorage(Sig("responder", "ev100"))
    \/ Responder
    \/ Emitir
    \/ Omitir
    \/ EmitirComplete
    \/ ManejarError
    \/ Terminar
    \/ Cerrar

----------------------------------------------------------------------------
(* The web service: GET /archivos *)

LimitDefault == 50    \* request.args.get('limit', 50, type=int)

\* request.args.get('limit', 50, type=int): the query value, a sequence
\* that is empty when the parameter is not sent
LimitDe(p) == IF p.limit = <<>> THEN LimitDefault ELSE p.limit[1]

\* a blob under vzla/: carpeta is the second part of its name, as the rank
\* of the timestamp name among the names (0 for an empty part), nombre is
\* what follows the second slash, "-" when there is no second slash
EsArchivo(blob) == blob.carpeta # 0 /\ blob.nombre \notin {"-", ""}

\* carpetas: folder -> the files grouped under it
Carpetas(blobs) ==
    [ts \in {b.carpeta : b \in {x \in blobs : EsArchivo(x)}} |->
        {b.nombre : b \in {x \in blobs : EsArchivo(x) /\ x.carpeta = ts}}]

\* sorted(S, reverse=True)
RECURSIVE Sorted_Reverse(_)
Sorted_Reverse(S) ==
    IF S = {} THEN <<>> ELSE <<Maximo(S)>> \o Sorted_Reverse(S \ {Maximo(S)})

\* seq[:limit]: a negative limit leaves out the last -limit elements
Rebanada(seq, limit) ==
    SubSeq(seq, 1, IF limit >= 0
                   THEN (IF limit < Len(seq) THEN limit ELSE Len(seq))
                   ELSE (IF Len(seq) + limit > 0 THEN Len(seq) + limit ELSE 0))

ListarArchivos ==
    /\ pc = "inicio"
    /\ peticion.endpoint = "archivos"
    /\ IF ~entorno.GCS_BUCKET_NAME \/ "storage" \in entorno.fallas
       THEN respuesta' = Responde(500, "error", 0)
       ELSE LET carpetas == Carpetas(entorno.blobs)
                carpetas_ordenadas == Rebanada(Sorted_Reverse(DOMAIN carpetas), LimitDe(peticion))
                archivos_respuesta ==
                    [i \in 1..Len(carpetas_ordenadas) |->
                        [carpeta |-> carpetas_ordenadas[i],
                         archivos |-> carpetas[carpetas_ordenadas[i]]]]
            IN respuesta' = [codigo |-> 200, status |-> "success", filas |-> 0,
                             total_ejecuciones |-> Len(archivos_respuesta),
                             archivos |-> archivos_respuesta]
    /\ pc' = "fin"
    /\ UNCHANGED <<entradas, corrida, peticion, entorno, temp_dir, subidas, eventos>>

----------------------------------------------------------------------------
(* Input menus *)

T_x == <<"x">>
T_usd == <<"U", "S", "D">>
T_usd_min == <<" ", "u", "s", "d">>
T_ves == <<"V", "E", "S">>
T_ves_min == <<"v", "e", "s", " ">>
T_cop == <<"C", "O", "P">>
T_eur == <<"e", "u", "r">>
T_gbp == <<"G", "B", "P">>

\* all sequences over S of length at most n
SeqHasta(S, n) == UNION {[1..m -> S] : m \in 0..n}

\* a stage called outside the web service: no request, nothing uploaded
SinServicio ==
    /\ peticion = [endpoint |-> "ninguno", archivos |-> FALSE, limit |-> <<>>]
    /\ entorno = [GCP_PROJECT_ID |-> FALSE, GCS_BUCKET_NAME |-> FALSE,
                  fallas |-> {}, blobs |-> {}]
    /\ temp_dir = [estado |-> "ninguno", archivos |-> {}]
    /\ subidas = <<>>
    /\ eventos = <<>>
    /\ respuesta = SinResponder

\* before a run: no area directory, no raw sheet, nothing computed yet
SinCorrida ==
    /\ SinServicio
    /\ areas_dict = <<>>
    /\ df_raw = <<>>
    /\ divisores = {}
    /\ etapas = <<>>
    /\ error = {}
    /\ fila_cabezales = -1

\* rate cells of the resolver's specification
TasasMenu == {Nulo, Entero(50), Entero(55)}

FechasTasaMenu == Timestamps \cup {Nulo}

FechasOrdenMenu == Timestamps \cup {Nulo, Texto(T_x)}

----------------------------------------------------------------------------
(* The resolver alone: a rate table with the single rate column VES/USD,   *)
(* one order, and the rate-assignment stage.                               *)

InitTasa ==
    /\ tasa_columns = <<N_FECHA, N_VES_USD>>
    /\ df_tasa \in SeqHasta({<<f, t>> : f \in FechasTasaMenu, t \in TasasMenu}, MaxTasas)
    /\ df_lookup = <<>>
    /\ df_columns = <<"FECHA_ORDEN", "DIVISA">>
    /\ \E f \in FechasOrdenMenu, d \in {Texto(T_ves_min), Texto(T_usd)} :
          df = <<[FECHA_ORDEN |-> f, DIVISA |-> d]>>
    /\ df_ordenes = df
    /\ SinCorrida
    /\ pc = "tasa"

NextTasa == AgregarColumnaTasa("fin")

SpecTasa == InitTasa /\ [][NextTasa]_vars

----------------------------------------------------------------------------
(* Column selection: rate tables of every layout with at most one row, one *)
(* order of every currency, and the rate-assignment stage.                 *)

LayoutsTasa ==
    {<<N_FECHA, N_VES_USD>>, <<N_FECHA, N_COP_USD>>, <<N_FECHA, N_EUR_USD>>,
     <<N_FECHA, N_TASA>>, <<N_FECHA, N_VES_EUR>>,
     <<N_FECHA, N_COP_USD, N_VES_USD>>, <<N_FECHA, N_EUR_USD, N_COP_USD>>}

\* the rows a rate table with columns cols can hold: a date cell, then rate cells
FilasTasaMenu(cols) ==
    {<<f>> \o r : f \in FechasTasaMenu, r \in [1..(Len(cols) - 1) -> TasasMenu]}

DivisasMenu ==
    {Nulo, Texto(T_usd), Texto(T_usd_min), Texto(T_ves), Texto(T_ves_min),
     Texto(T_cop), Texto(T_eur), Texto(T_gbp)}

InitDivisa ==
    /\ tasa_columns \in LayoutsTasa
    /\ df_tasa \in SeqHasta(FilasTasaMenu(tasa_columns), 1)
    /\ df_lookup = <<>>
    /\ df_columns = <<"FECHA_ORDEN", "DIVISA">>
    /\ \E f \in FechasOrdenMenu, d \in DivisasMenu :
          df = <<[FECHA_ORDEN |-> f, DIVISA |-> d]>>
    /\ df_ordenes = df
    /\ SinCorrida
    /\ pc = "tasa"

SpecDivisa == InitDivisa /\ [][NextTasa]_vars

----------------------------------------------------------------------------
(* The amount stages alone: one order whose TASA cell is already present   *)
(* and may hold anything; order amount, associated amount, net debt.       *)

MaxMonto == 2       \* amounts 0..MaxMonto

T_0 == <<"0">>
T_3 == <<"3">>
T_5 == <<"5">>

PreciosMenu == {Nulo, Texto(T_x), Entero(1), Entero(2)}

ImportesMenu == {Nulo, Texto(T_x), Texto(T_3)} \cup {Entero(n) : n \in 0..MaxMonto}

TasasCeldaMenu ==
    {Nulo, Texto(T_x), Texto(T_0), Texto(T_5), Entero(0), Entero(2), Entero(50)}

InitMontos ==
    /\ tasa_columns = <<N_FECHA, N_VES_USD>>
    /\ df_tasa = <<>>
    /\ df_lookup = <<>>
    /\ df_columns = <<"DIVISA", "PRICE_OVERRIDE", "IMPORTE", "IMPORTE_ASOCIADO", "TASA">>
    /\ \E d \in DivisasMenu, p \in PreciosMenu, m \in ImportesMenu,
          a \in ImportesMenu, t \in TasasCeldaMenu :
          df = <<[DIVISA |-> d, PRICE_OVERRIDE |-> p, IMPORTE |-> m,
                  IMPORTE_ASOCIADO |-> a, TASA |-> t]>>
    /\ df_ordenes = df
    /\ SinCorrida
    /\ pc = "montos"

NextMontos ==
    \/ AgregarMontosOc("asociado")
    \/ AgregarMontosOcAsociado("deuda")
    \/ AgregarMontoRealDeuda("fin")

SpecMontos == InitMontos /\ [][NextMontos]_vars

----------------------------------------------------------------------------
(* Rate assignment followed by the amount stages: a rate table of every    *)
(* layout with at most one row, one order of every currency.               *)

FechasConversion == {Ts(1, 0), Ts(MaxDia, 0)}

FilasTasaConversion(cols) ==
    {<<f>> \o r : f \in FechasConversion, r \in [1..(Len(cols) - 1) -> TasasMenu]}

InitConversion ==
    /\ tasa_columns \in LayoutsTasa
    /\ df_tasa \in SeqHasta(FilasTasaConversion(tasa_columns), 1)
    /\ df_lookup = <<>>
    /\ df_columns = <<"FECHA_ORDEN", "DIVISA", "PRICE_OVERRIDE", "IMPORTE", "IMPORTE_ASOCIADO">>
    /\ \E f \in FechasConversion \cup {Nulo}, d \in DivisasMenu,
          m \in {Nulo, Entero(3)}, a \in {Nulo, Entero(1)} :
          df = <<[FECHA_ORDEN |-> f, DIVISA |-> d, PRICE_OVERRIDE |-> Entero(2),
                  IMPORTE |-> m, IMPORTE_ASOCIADO |-> a]>>
    /\ df_ordenes = df
    /\ SinCorrida
    /\ pc = "tasa"

NextConversion ==
    \/ AgregarColumnaTasa("montos")
    \/ AgregarMontosOc("asociado")
    \/ AgregarMontosOcAsociado("deuda")
    \/ AgregarMontoRealDeuda("fin")

SpecConversion == InitConversion /\ [][NextConversion]_vars

----------------------------------------------------------------------------
(* The filter alone, run twice: orders with every kind of closure state,   *)
(* with and without the ESTADO_CIERRE column.                              *)

MaxOrdenes == 3     \* rows of the orders table

T_cerrado == <<"C", "E", "R", "R", "A", "D", "O">>
T_cerrado_min == <<" ", "c", "e", "r", "r", "a", "d", "o", " ">>
T_cerrada == <<"C", "E", "R", "R", "A", "D", "A">>
T_abierto == <<"A", "B", "I", "E", "R", "T", "O">>

EstadosMenu ==
    {Nulo, Texto(T_cerrado), Texto(T_cerrado_min), Texto(T_cerrada), Texto(T_abierto)}

InitFiltro ==
    /\ tasa_columns = <<N_FECHA, N_VES_USD>>
    /\ df_tasa = <<>>
    /\ df_lookup = <<>>
    /\ \/ /\ df_columns = <<"NUMERO_OC", "ESTADO_CIERRE">>
          /\ \E n \in 0..MaxOrdenes : \E estados \in [1..n -> EstadosMenu] :
                df = [i \in 1..n |-> [NUMERO_OC |-> Entero(i), ESTADO_CIERRE |-> estados[i]]]
       \/ /\ df_columns = <<"NUMERO_OC">>
          /\ \E n \in 0..MaxOrdenes : df = [i \in 1..n |-> [NUMERO_OC |-> Entero(i)]]
    /\ df_ordenes = df
    /\ SinCorrida
    /\ pc = "filtrar"

NextFiltro ==
    \/ FiltrarCerrados("refiltrar")
    \/ RefiltrarCerrados("fin")

SpecFiltro == InitFiltro /\ [][NextFiltro]_vars

----------------------------------------------------------------------------
(* The fiscal-year stage alone: one order of every date of MaxMeses months. *)

MaxMeses == 24      \* months covered by the order dates

FechasFiscalMenu ==
    {Ts(d, h) : d \in 1..(MaxMeses * DiasPorMes), h \in Horas} \cup {Nulo, Texto(T_x)}

InitFiscal ==
    /\ tasa_columns = <<N_FECHA, N_VES_USD>>
    /\ df_tasa = <<>>
    /\ df_lookup = <<>>
    /\ df_columns = <<"NUMERO_OC", "FECHA_ORDEN">>
    /\ \/ df = <<>>
       \/ \E f \in FechasFiscalMenu : df = <<[NUMERO_OC |-> Entero(1), FECHA_ORDEN |-> f]>>
    /\ df_ordenes = df
    /\ SinCorrida
    /\ pc = "fiscal"

NextFiscal == AgregarAnoFiscal("fin")

SpecFiscal == InitFiscal /\ [][NextFiscal]_vars

----------------------------------------------------------------------------
(* The pipeline of procesar_archivos and of the streaming endpoints.       *)

\* mutant of NextPipeline: the area lookup runs before the rate assignment
NextPipeline_AreaAntes ==
    \/ FiltrarCerrados("fiscal")
    \/ AgregarAnoFiscal("area")
    \/ AgregarColumnaArea("tasa")
    \/ AgregarColumnaTasa("montos")
    \/ AgregarMontosOc("asociado")
    \/ AgregarMontosOcAsociado("deuda")
    \/ AgregarMontoRealDeuda("fin")

\* each stage is called when the one before it has returned; an exception
\* ends the run
NextPipeline ==
    \/ FiltrarCerrados("fiscal")
    \/ AgregarAnoFiscal("tasa")
    \/ AgregarColumnaTasa("area")
    \/ AgregarColumnaArea("montos")
    \/ AgregarMontosOc("asociado")
    \/ AgregarMontosOcAsociado("deuda")
    \/ AgregarMontoRealDeuda("fin")

----------------------------------------------------------------------------
(* Each stage called on a table that may lack columns: the table a run has *)
(* at that stage, with up to MaxQuitadas of its columns taken out; the run *)
(* goes on from there.                                                     *)

MaxQuitadas == 2    \* columns taken out of the table

T_ana == <<"a", "n", "a", " ">>
T_ANA == <<"A", "N", "A">>
T_ventas == <<"V", "e", "n", "t", "a", "s">>
T_otro == <<"l", "u", "z">>

\* the stages and the derived columns a run has added before each
EtapasMenu ==
    {[etapa |-> "filtrar", derivadas |-> <<>>],
     [etapa |-> "fiscal", derivadas |-> <<>>],
     [etapa |-> "tasa", derivadas |-> <<"AÑO FISCAL">>],
     [etapa |-> "area", derivadas |-> <<"AÑO FISCAL", "TASA">>],
     [etapa |-> "montos", derivadas |-> <<"AÑO FISCAL", "TASA", "AREA">>],
     [etapa |-> "asociado",
      derivadas |-> <<"AÑO FISCAL", "TASA", "AREA", "MONTO OC", "MONTO OC USD">>],
     [etapa |-> "deuda",
      derivadas |-> <<"AÑO FISCAL", "TASA", "AREA", "MONTO OC", "MONTO OC USD",
                      "MONTO OC ASOCIADO", "MONTO OC ASOCIADO USD">>]}

\* one open order in VES with every cell a run can have given it
FilaCompleta ==
    [c \in {COLUMNAS_ESPERADAS[i] : i \in 1..Len(COLUMNAS_ESPERADAS)}
            \cup {"AÑO FISCAL", "TASA", "AREA", "MONTO OC", "MONTO OC USD",
                  "MONTO OC ASOCIADO", "MONTO OC ASOCIADO USD"} |->
        CASE c = "NUMERO_OC" -> Entero(1)
          [] c = "DIVISA" -> Texto(T_ves)
          [] c = "PRICE_OVERRIDE" -> Entero(2)
          [] c = "IMPORTE" -> Entero(100)
          [] c = "IMPORTE_ASOCIADO" -> Entero(50)
          [] c = "FECHA_ORDEN" -> Ts(1, 0)
          [] c = "SOLICITANTE" -> Texto(T_ana)
          [] c = "ESTADO_CIERRE" -> Texto(T_abierto)
          [] c = "AÑO FISCAL" -> Texto(<<"2", "0", "2", "4", "-", "2", "0", "2", "5">>)
          [] c = "TASA" -> Entero(50)
          [] c = "AREA" -> Texto(T_ventas)
          [] c = "MONTO OC" -> Entero(200)
          [] c = "MONTO OC USD" -> Entero(4)
          [] c = "MONTO OC ASOCIADO" -> Entero(100)
          [] c = "MONTO OC ASOCIADO USD" -> Entero(2)
          [] OTHER -> Nulo]

InitEtapas ==
    /\ \/ /\ tasa_columns = <<N_FECHA, N_VES_USD>>
          /\ df_tasa = <<<<Ts(1, 0), Entero(50)>>>>
       \/ /\ tasa_columns = <<N_FECHA, N_VES_USD, NoTexto>>
          /\ df_tasa = <<<<Ts(1, 0), Entero(50), Nulo>>>>
    /\ areas_dict = [s \in {T_ANA} |-> T_ventas]
    /\ df_raw = <<>>
    /\ df_lookup = <<>>
    /\ \E e \in EtapasMenu :
          LET todas == COLUMNAS_ESPERADAS \o e.derivadas
          IN \E quitadas \in SUBSET {todas[i] : i \in 1..Len(todas)} :
                LET queda(c) == c \notin quitadas
                    cols == SelectSeq(todas, queda)
                IN /\ Cardinality(quitadas) <= MaxQuitadas
                   /\ df_columns = cols
                   /\ df = <<[c \in {cols[i] : i \in 1..Len(cols)} |-> FilaCompleta[c]]>>
                   /\ pc = e.etapa
    /\ df_ordenes = df
    /\ divisores = {}
    /\ etapas = <<>>
    /\ error = {}
    /\ fila_cabezales = -1
    /\ SinServicio

SpecEtapas == InitEtapas /\ [][NextPipeline]_vars

----------------------------------------------------------------------------
(* The area lookup alone: up to MaxSolicitantes orders whose requester is  *)
(* null, in the directory as written, in the directory after upper-casing  *)
(* and trimming, or not in it; with and without the SOLICITANTE column.    *)

MaxSolicitantes == 2    \* orders of the table

T_caja == <<"C", "a", "j", "a">>
T_LUZ == <<"L", "U", "Z">>

SolicitantesMenu == {Nulo, Texto(T_ana), Texto(T_ANA), Texto(T_otro)}

\* the directory read from the sheet: {} when it could not be read; its
\* keys are upper-cased and trimmed
DirectoriosMenu ==
    {<<>>, [s \in {T_ANA} |-> T_ventas],
     [s \in {T_ANA, T_LUZ} |-> IF s = T_ANA THEN T_ventas ELSE T_caja]}

InitArea ==
    /\ tasa_columns = <<>>
    /\ df_tasa = <<>>
    /\ areas_dict \in DirectoriosMenu
    /\ df_raw = <<>>
    /\ df_lookup = <<>>
    /\ \E solicitantes \in SeqHasta(SolicitantesMenu, MaxSolicitantes) :
          \E cols \in {COLUMNAS_ESPERADAS \o <<"AÑO FISCAL", "TASA">>,
                        SelectSeq(COLUMNAS_ESPERADAS \o <<"AÑO FISCAL", "TASA">>,
                                  LAMBDA c : c # "SOLICITANTE")} :
             /\ df_columns = cols
             /\ df = [i \in 1..Len(solicitantes) |->
                        [c \in {cols[j] : j \in 1..Len(cols)} |->
                            IF c = "SOLICITANTE" THEN solicitantes[i] ELSE FilaCompleta[c]]]
    /\ df_ordenes = df
    /\ divisores = {}
    /\ etapas = <<>>
    /\ error = {}
    /\ fila_cabezales = -1
    /\ SinServicio
    /\ pc = "area"

NextArea == AgregarColumnaArea("fin")

SpecArea == InitArea /\ [][NextArea]_vars

----------------------------------------------------------------------------
(* A whole run of procesar_archivos: an orders table with the 16 columns,  *)
(* a rate table and an area directory.                                     *)

\* one order: the cells the stages read, the other columns left empty
FilaOrden(estado, divisa, fecha, precio, importe, asociado, solicitante) ==
    [c \in {COLUMNAS_ESPERADAS[i] : i \in 1..Len(COLUMNAS_ESPERADAS)} |->
        CASE c = "ESTADO_CIERRE" -> estado
          [] c = "DIVISA" -> divisa
          [] c = "FECHA_ORDEN" -> fecha
          [] c = "PRICE_OVERRIDE" -> precio
          [] c = "IMPORTE" -> importe
          [] c = "IMPORTE_ASOCIADO" -> asociado
          [] c = "SOLICITANTE" -> solicitante
          [] OTHER -> Nulo]

\* a closed order; an open order in VES that resolves everywhere; open orders
\* with a null date, a non-numeric price, a null amount, no requester, an
\* unparseable date, an unknown requester, a currency without a rate column
OrdenesMenu ==
    {FilaOrden(Texto(T_cerrado_min), Texto(T_ves), Ts(1, 0), Entero(2), Entero(100),
               Entero(50), Texto(T_ana)),
     FilaOrden(Texto(T_abierto), Texto(T_ves_min), Ts(1, 0), Entero(2), Entero(100),
               Entero(50), Texto(T_ana)),
     FilaOrden(Nulo, Texto(T_usd), Nulo, Texto(T_x), Nulo, Nulo, Nulo),
     FilaOrden(Texto(T_cerrada), Texto(T_gbp), Texto(T_x), Entero(2), Texto(T_3),
               Entero(0), Texto(T_otro)),
     FilaOrden(Texto(T_abierto), Texto(T_eur), Ts(2, 1), Entero(3), Entero(5),
               Texto(T_x), Texto(T_otro))}

\* rate tables: one rate row; no row; a zero rate; a label that is not a
\* text after the rate columns of the three currencies; such a label after
\* the VES column only
TablasTasaMenu ==
    {[columns |-> <<N_FECHA, N_VES_USD>>, filas |-> <<<<Ts(1, 0), Entero(50)>>>>],
     [columns |-> <<N_FECHA, N_VES_USD>>, filas |-> <<>>],
     [columns |-> <<N_FECHA, N_VES_USD>>, filas |-> <<<<Ts(1, 0), Entero(0)>>>>],
     [columns |-> <<N_FECHA, N_VES_USD, N_COP_USD, N_EUR_USD, NoTexto>>,
      filas |-> <<<<Ts(1, 0), Entero(50), Entero(4000), Texto(T_x), Nulo>>>>],
     [columns |-> <<N_FECHA, N_VES_USD, NoTexto>>,
      filas |-> <<<<Ts(1, 0), Entero(50), Nulo>>>>]}

\* the directory read from the sheet, or {} when it could not be read
AreasMenu == {<<>>, [s \in {T_ANA} |-> T_ventas]}

InitPipeline ==
    /\ \E tt \in TablasTasaMenu : tasa_columns = tt.columns /\ df_tasa = tt.filas
    /\ areas_dict \in AreasMenu
    /\ df_ordenes \in SeqHasta(OrdenesMenu, MaxOrdenes)
    /\ df = df_ordenes
    /\ df_columns = COLUMNAS_ESPERADAS
    /\ df_raw = <<>>
    /\ df_lookup = <<>>
    /\ divisores = {}
    /\ etapas = <<>>
    /\ error = {}
    /\ fila_cabezales = -1
    /\ SinServicio
    /\ pc = "filtrar"

SpecPipeline == InitPipeline /\ [][NextPipeline]_vars

----------------------------------------------------------------------------
(* The header detectors alone: raw sheets of the orders file with up to    *)
(* MaxFilas rows and of the rate file with up to MaxFilasTasa rows, so     *)
(* that both have rows beyond the rows the detectors scan.                 *)

MaxFilas == 6        \* rows of a raw orders sheet
MaxFilasTasa == 11   \* rows of a raw rate sheet

\* the 16 names as written
FilaCabezales ==
    <<Texto(<<"N", "U", "M", "E", "R", "O", "_", "O", "C">>),
      Texto(<<"P", "R", "O", "V", "E", "E", "D", "O", "R">>),
      Texto(<<"S", "U", "C", "U", "R", "S", "A", "L">>),
      Texto(<<"D", "I", "V", "I", "S", "A">>),
      Texto(<<"P", "R", "I", "C", "E", "_", "O", "V", "E", "R", "R", "I", "D", "E">>),
      Texto(<<"I", "M", "P", "O", "R", "T", "E">>),
      Texto(<<"I", "M", "P", "O", "R", "T", "E", "_", "R", "E", "C", "I", "B", "I", "D", "O">>),
      Texto(<<"I", "M", "P", "O", "R", "T", "E", "_", "A", "S", "O", "C", "I", "A", "D", "O">>),
      Texto(<<"F", "E", "C", "H", "A", "_", "O", "R", "D", "E", "N">>),
      Texto(<<"U", "N", "I", "D", "A", "D", "_", "M", "E", "D", "I", "D", "A">>),
      Texto(<<"D", "E", "S", "C", "R", "I", "P", "C", "I", "O", "N">>),
      Texto(<<"C", "U", "E", "N", "T", "A", "_", "C", "A", "R", "G", "O">>),
      Texto(<<"S", "O", "L", "I", "C", "I", "T", "A", "N", "T", "E">>),
      Texto(<<"E", "S", "T", "A", "D", "O", "_", "C", "I", "E", "R", "R", "E">>),
      Texto(<<"A", "P", "R", "O", "B", "A", "D", "O", "R">>),
      Texto(<<"F", "E", "C", "H", "A", "_", "C", "I", "E", "R", "R", "E">>)>>

\* the 16 names, two of them in other case or with blanks, and two more cells
FilaCabezalesSinNormalizar ==
    <<Texto(<<" ", "n", "u", "m", "e", "r", "o", "_", "o", "c", " ">>),
      Texto(<<"P", "R", "O", "V", "E", "E", "D", "O", "R">>),
      Texto(<<"S", "U", "C", "U", "R", "S", "A", "L">>),
      Texto(<<"D", "I", "V", "I", "S", "A">>),
      Texto(<<"P", "R", "I", "C", "E", "_", "O", "V", "E", "R", "R", "I", "D", "E">>),
      Texto(<<"I", "M", "P", "O", "R", "T", "E">>),
      Texto(<<"I", "M", "P", "O", "R", "T", "E", "_", "R", "E", "C", "I", "B", "I", "D", "O">>),
      Texto(<<"I", "M", "P", "O", "R", "T", "E", "_", "A", "S", "O", "C", "I", "A", "D", "O">>),
      Texto(<<"F", "e", "c", "h", "a", "_", "O", "r", "d", "e", "n">>),
      Texto(<<"U", "N", "I", "D", "A", "D", "_", "M", "E", "D", "I", "D", "A">>),
      Texto(<<"D", "E", "S", "C", "R", "I", "P", "C", "I", "O", "N">>),
      Texto(<<"C", "U", "E", "N", "T", "A", "_", "C", "A", "R", "G", "O">>),
      Texto(<<"S", "O", "L", "I", "C", "I", "T", "A", "N", "T", "E">>),
      Texto(<<"E", "S", "T", "A", "D", "O", "_", "C", "I", "E", "R", "R", "E">>),
      Texto(<<"A", "P", "R", "O", "B", "A", "D", "O", "R">>),
      Texto(<<"F", "E", "C", "H", "A", "_", "C", "I", "E", "R", "R", "E">>),
      Texto(<<"E", "X", "T", "R", "A">>),
      Nulo>>

\* 15 of the 16 names
FilaCabezalesIncompleta ==
    <<Texto(<<"N", "U", "M", "E", "R", "O", "_", "O", "C">>),
      Texto(<<"P", "R", "O", "V", "E", "E", "D", "O", "R">>),
      Texto(<<"S", "U", "C", "U", "R", "S", "A", "L">>),
      Texto(<<"D", "I", "V", "I", "S", "A">>),
      Texto(<<"P", "R", "I", "C", "E", "_", "O", "V", "E", "R", "R", "I", "D", "E">>),
      Texto(<<"I", "M", "P", "O", "R", "T", "E">>),
      Texto(<<"I", "M", "P", "O", "R", "T", "E", "_", "R", "E", "C", "I", "B", "I", "D", "O">>),
      Texto(<<"I", "M", "P", "O", "R", "T", "E", "_", "A", "S", "O", "C", "I", "A", "D", "O">>),
      Texto(<<"F", "E", "C", "H", "A", "_", "O", "R", "D", "E", "N">>),
      Texto(<<"U", "N", "I", "D", "A", "D", "_", "M", "E", "D", "I", "D", "A">>),
      Texto(<<"D", "E", "S", "C", "R", "I", "P", "C", "I", "O", "N">>),
      Texto(<<"C", "U", "E", "N", "T", "A", "_", "C", "A", "R", "G", "O">>),
      Texto(<<"S", "O", "L", "I", "C", "I", "T", "A", "N", "T", "E">>),
      Texto(<<"E", "S", "T", "A", "D", "O", "_", "C", "I", "E", "R", "R", "E">>),
      Texto(<<"A", "P", "R", "O", "B", "A", "D", "O", "R">>),
      Nulo>>

\* a row of data
FilaDatos ==
    <<Entero(1),
      Texto(<<"x">>),
      Nulo,
      Nulo,
      Nulo,
      Nulo,
      Nulo,
      Nulo,
      Nulo,
      Nulo,
      Nulo,
      Nulo,
      Texto(<<"a", "n", "a">>),
      Texto(<<"C", "E", "R", "R", "A", "D", "O">>),
      Nulo,
      Nulo>>

FilasOrdenesMenu ==
    {FilaCabezales, FilaCabezalesSinNormalizar, FilaCabezalesIncompleta, FilaDatos}

\* three of the rate names, in other case or with blanks
FilaCabezalesTasa ==
    <<Texto(<<" ", "f", "e", "c", "h", "a">>), Texto(<<"v", "e", "s", "/", "u", "s", "d", " ">>), Texto(<<"C", "o", "p", "/", "U", "s", "d">>), Entero(1), Nulo>>

\* five cells with names but only two different rate names
FilaDosNombres ==
    <<Texto(<<"F", "E", "C", "H", "A">>), Texto(<<"f", "e", "c", "h", "a", " ">>), Texto(<<"V", "E", "S", "/", "U", "S", "D">>), Texto(<<"T", "A", "S", "A">>), Nulo>>

FilaDatosTasa == <<Nulo, Entero(50), Entero(4000), Nulo, Nulo>>

\* the raw rate sheet of n rows whose rows at the positions Q have three rate
\* names; the other rows have two names (odd positions) or data (even)
HojaTasa(n, Q) ==
    [i \in 1..n |-> IF i \in Q THEN FilaCabezalesTasa
                    ELSE IF i % 2 = 1 THEN FilaDosNombres ELSE FilaDatosTasa]

InitCabezales ==
    /\ tasa_columns = <<>>
    /\ df_tasa = <<>>
    /\ df_ordenes = <<>>
    /\ areas_dict = <<>>
    /\ df_lookup = <<>>
    /\ df_columns = <<>>
    /\ df = <<>>
    /\ divisores = {}
    /\ etapas = <<>>
    /\ error = {}
    /\ fila_cabezales = -1
    /\ SinServicio
    /\ \/ /\ pc = "cabezales"
          /\ df_raw \in SeqHasta(FilasOrdenesMenu, MaxFilas)
       \/ /\ pc = "cabezales_tasa"
          /\ \E n \in 0..MaxFilasTasa : \E Q \in SUBSET (1..n) : df_raw = HojaTasa(n, Q)

NextCabezales == DetectarCabezales \/ DetectarCabezalesTasa

SpecCabezales == InitCabezales /\ [][NextCabezales]_vars

----------------------------------------------------------------------------
(* Loading alone: leer_ordenes_compra on raw orders sheets whose header    *)
(* row has the names as written, in other case, with a name missing or     *)
(* with a 17th cell, under up to MaxAntes other rows and over up to        *)
(* MaxDespues rows of data.  A sheet is a rectangle.                       *)

MaxAntes == 5      \* rows above the header row
MaxDespues == 2    \* rows below the header row

\* a row with empty cells up to the width of the sheet
Rellenar(fila, ancho) == fila \o [j \in 1..(ancho - Len(fila)) |-> Nulo]

\* a second row of data: an open order
FilaDatosAbierta ==
    [FilaDatos EXCEPT ![1] = Entero(2), ![14] = Texto(<<"A", "B", "I", "E", "R", "T", "O">>)]

\* the 17th cell of a header row: empty, another name, one of the 16 names
\* in other case and with blanks, one of the 16 names again, a number
CeldasDeMas ==
    {Nulo, Texto(<<"E", "X", "T", "R", "A">>), Texto(<<" ", "d", "i", "v", "i", "s", "a", " ">>), Texto(<<"D", "I", "V", "I", "S", "A">>), Entero(7)}

FilasCabezalesCarga ==
    {FilaCabezales, SubSeq(FilaCabezalesSinNormalizar, 1, 16), FilaCabezalesIncompleta,
     FilaDatos}
    \cup {FilaCabezales \o <<c>> : c \in CeldasDeMas}

\* the sheet with the row cab under `antes` rows, all of them data or all
\* of them incomplete header rows, and over the rows `despues`
HojaOrdenes(cab, antes, relleno, despues) ==
    [i \in 1..antes |-> Rellenar(relleno, Len(cab))]
    \o <<cab>>
    \o [i \in 1..Len(despues) |-> Rellenar(despues[i], Len(cab))]

InitCarga ==
    /\ tasa_columns = <<>>
    /\ df_tasa = <<>>
    /\ df_ordenes = <<>>
    /\ areas_dict = <<>>
    /\ df_lookup = <<>>
    /\ df_columns = <<>>
    /\ df = <<>>
    /\ divisores = {}
    /\ etapas = <<>>
    /\ error = {}
    /\ fila_cabezales = -1
    /\ SinServicio
    /\ pc = "leer_ordenes"
    /\ \/ df_raw = <<>>
       \/ \E cab \in FilasCabezalesCarga, antes \in 0..MaxAntes,
             relleno \in {FilaDatos, FilaCabezalesIncompleta},
             despues \in SeqHasta({FilaDatos, FilaDatosAbierta}, MaxDespues) :
             df_raw = HojaOrdenes(cab, antes, relleno, despues)

NextCarga == LeerOrdenesCompra("fin")

SpecCarga == InitCarga /\ [][NextCarga]_vars

----------------------------------------------------------------------------
(* Requests to /generar-deuda and /generar-deuda/stream: with and without  *)
(* the two files, an orders sheet with an open and a closed order, with no *)
(* order, or with a name missing in its header row, a rate table the rate  *)
(* stage accepts or not, the collaborators configured or not, and up to    *)
(* MaxFallas steps of the environment that fail.                           *)

MaxFallas == 2    \* steps of the environment that fail in a request

FallasMenu == {"guardar", "leer_tasa", "excel", "salida", "bigquery", "storage"}

HojasServicio ==
    {HojaOrdenes(FilaCabezales, 0, FilaDatos, <<FilaDatosAbierta, FilaDatos>>),
     HojaOrdenes(FilaCabezales, 0, FilaDatos, <<>>),
     HojaOrdenes(FilaCabezalesIncompleta, 0, FilaDatos, <<FilaDatosAbierta>>)}

TablasTasaServicio ==
    {[columns |-> <<N_FECHA, N_VES_USD>>, filas |-> <<<<Ts(1, 0), Entero(50)>>>>],
     [columns |-> <<N_FECHA, N_VES_USD, NoTexto>>,
      filas |-> <<<<Ts(1, 0), Entero(50), Nulo>>>>]}

InitServicio ==
    /\ \E tt \in TablasTasaServicio : tasa_columns = tt.columns /\ df_tasa = tt.filas
    /\ areas_dict = [s \in {T_ANA} |-> T_ventas]
    /\ df_raw \in HojasServicio
    /\ df_ordenes = <<>>
    /\ df = <<>>
    /\ df_columns = <<>>
    /\ df_lookup = <<>>
    /\ divisores = {}
    /\ etapas = <<>>
    /\ error = {}
    /\ fila_cabezales = -1
    /\ \E e \in {"generar", "stream"}, a \in BOOLEAN :
          peticion = [endpoint |-> e, archivos |-> a, limit |-> <<>>]
    /\ \E p \in BOOLEAN, b \in BOOLEAN, f \in SUBSET FallasMenu :
          /\ Cardinality(f) <= MaxFallas
          /\ entorno = [GCP_PROJECT_ID |-> p, GCS_BUCKET_NAME |-> b, fallas |-> f,
                        blobs |-> {}]
    /\ temp_dir = [estado |-> "ninguno", archivos |-> {}]
    /\ subidas = <<>>
    /\ eventos = <<>>
    /\ respuesta = SinResponder
    /\ pc = "inicio"

SpecServicio == InitServicio /\ [][NextServicio]_vars

----------------------------------------------------------------------------
(* Requests to /archivos: a bucket with up to MaxBlobs blobs under vzla/   *)
(* in up to MaxCarpetas folders (files, files in subfolders, folder        *)
(* markers, names without a second slash or with an empty folder part),    *)
(* and a limit that is not sent, negative, zero or positive.               *)

MaxCarpetas == 3    \* folders under vzla/
MaxBlobs == 3       \* blobs of the bucket
MaxLimit == 3       \* the limit sent is in -MaxLimit..MaxLimit

BlobsMenu ==
    {[carpeta |-> c, nombre |-> n] : c \in 0..MaxCarpetas, n \in {"-", "", "a.xlsx", "sub/b.xlsx"}}

InitArchivos ==
    /\ tasa_columns = <<>>
    /\ df_tasa = <<>>
    /\ df_ordenes = <<>>
    /\ areas_dict = <<>>
    /\ df_raw = <<>>
    /\ df_lookup = <<>>
    /\ df_columns = <<>>
    /\ df = <<>>
    /\ divisores = {}
    /\ etapas = <<>>
    /\ error = {}
    /\ fila_cabezales = -1
    /\ \E l \in {<<>>} \cup {<<n>> : n \in (-MaxLimit)..MaxLimit} :
          peticion = [endpoint |-> "archivos", archivos |-> FALSE, limit |-> l]
    /\ \E b \in SUBSET BlobsMenu, e \in {"ok", "sin_bucket", "falla"} :
          /\ Cardinality(b) <= MaxBlobs
          /\ entorno = [GCP_PROJECT_ID |-> FALSE, GCS_BUCKET_NAME |-> e # "sin_bucket",
                        fallas |-> IF e = "falla" THEN {"storage"} ELSE {}, blobs |-> b]
    /\ temp_dir = [estado |-> "ninguno", archivos |-> {}]
    /\ subidas = <<>>
    /\ eventos = <<>>
    /\ respuesta = SinResponder
    /\ pc = "inicio"

NextArchivos == ListarArchivos

SpecArchivos == InitArchivos /\ [][NextArchivos]_vars

----------------------------------------------------------------------------
(* Vocabulary of the claims about the resolver.  A "date" is a calendar    *)
(* day: the day of a Timestamp, whatever its time of day.                  *)

\* the rate-assignment stage has run
TasaAsignada == pc # "tasa" /\ pc # "error"

FechaValida(f) == f.k = "ts"

DiaDe(f) == f.a

\* the lookup key the order's currency resolves to
ClaveDe(fila) == ColTasaKey(ColumnasLookup(df_lookup), DivisaUpper(fila["DIVISA"]))

\* the rate of lookup row j in column key, null when the column is absent
TasaEn(j, key) ==
    IF key \in DOMAIN df_lookup[j].tasas THEN df_lookup[j].tasas[key] ELSE Nulo

\* lookup rows dated on the order's day / on or before it / after it
FilasDelDia(f) == {j \in 1..Len(df_lookup) : DiaDe(df_lookup[j].fecha) = DiaDe(f)}
FilasHastaDia(f) == {j \in 1..Len(df_lookup) : DiaDe(df_lookup[j].fecha) <= DiaDe(f)}
FilasDespuesDia(f) == {j \in 1..Len(df_lookup) : DiaDe(df_lookup[j].fecha) > DiaDe(f)}

\* C1 (as stated): when no row of the exact order date has a non-null rate, the
\* resolver returns the rate of the chronologically last row dated on or
\* before the order date if that rate is non-null and None otherwise; a null
\* or unparseable order date gives None.
C1_FallbackUltimaFilaPrevia ==
    TasaAsignada =>
        \A i \in 1..Len(df) :
            LET f == df[i]["FECHA_ORDEN"]
                key == ClaveDe(df[i])
            IN IF ~FechaValida(f) THEN df[i]["TASA"] = Nulo
               ELSE (\A j \in FilasDelDia(f) : IsNa(TasaEn(j, key))) =>
                        df[i]["TASA"] =
                            IF FilasHastaDia(f) = {} THEN Nulo
                            ELSE TasaEn(Maximo(FilasHastaDia(f)), key)

\* C2 (as stated): when some row dated on the order date has a non-null rate
\* in the resolved column, the resolver returns the rate of a row of that
\* date, never None and never an earlier row's rate.
C2_CoincidenciaExacta ==
    TasaAsignada =>
        \A i \in 1..Len(df) :
            LET f == df[i]["FECHA_ORDEN"]
                key == ClaveDe(df[i])
            IN (FechaValida(f) /\ \E j \in FilasDelDia(f) : ~IsNa(TasaEn(j, key))) =>
                    \E j \in FilasDelDia(f) :
                        ~IsNa(TasaEn(j, key)) /\ df[i]["TASA"] = TasaEn(j, key)

\* C3: a non-null rate assigned to an order is the rate of a lookup row dated
\* on or before the order date; when every row with a non-null rate is dated
\* after the order date, the order gets no rate.
C3_SinFechaFutura ==
    TasaAsignada =>
        \A i \in 1..Len(df) :
            LET f == df[i]["FECHA_ORDEN"]
                key == ClaveDe(df[i])
            IN ~IsNa(df[i]["TASA"]) =>
                    /\ FechaValida(f)
                    /\ \E j \in FilasHastaDia(f) : df[i]["TASA"] = TasaEn(j, key)

\* C3 witness: an order has a rate although a row dated after it carries
\* another non-null rate.
C3_Witness ==
    /\ TasaAsignada
    /\ \E i \in 1..Len(df) :
          /\ ~IsNa(df[i]["TASA"])
          /\ \E j \in FilasDespuesDia(df[i]["FECHA_ORDEN"]) :
                /\ ~IsNa(TasaEn(j, ClaveDe(df[i])))
                /\ TasaEn(j, ClaveDe(df[i])) # df[i]["TASA"]

\* C4 (as stated): when several lookup rows carry the same date, the last of
\* them wins (its rate, when it has one, is the one returned), when the order
\* date is that date (exact match) and when it is the closest earlier date
\* (fallback).  Stated for rows that carry the very same Timestamp, none
\* later than the order's.
C4_UltimoDuplicadoGana ==
    TasaAsignada =>
        \A i \in 1..Len(df) :
            LET f == df[i]["FECHA_ORDEN"]
                key == ClaveDe(df[i])
                hasta == FilasHastaDia(f)
                ultima == Maximo(hasta)
                mismaFecha == {j \in hasta : df_lookup[j].fecha = df_lookup[ultima].fecha}
            IN (FechaValida(f) /\ hasta # {} /\ Cardinality(mismaFecha) >= 2
                    /\ TsLeq(df_lookup[ultima].fecha, f)
                    /\ ~IsNa(TasaEn(ultima, key))) =>
                    df[i]["TASA"] = TasaEn(ultima, key)

\* C5 (as stated): when some row dated on or before the order date has a
\* non-null rate, the resolver returns the most recent such rate, also when
\* closer rows have a null rate.
C5_TasaConocidaMasReciente ==
    TasaAsignada =>
        \A i \in 1..Len(df) :
            LET f == df[i]["FECHA_ORDEN"]
                key == ClaveDe(df[i])
                conocidas == {j \in FilasHastaDia(f) : ~IsNa(TasaEn(j, key))}
            IN (FechaValida(f) /\ conocidas # {}) =>
                    df[i]["TASA"] = TasaEn(Maximo(conocidas), key)

----------------------------------------------------------------------------
(* Claims about the currency column *)

\* the first key of the priority order VES, COP, EUR, DEFAULT that is a
\* column of the lookup table, "" when none is
PrimeraDisponible ==
    LET cols == ColumnasLookup(df_lookup)
        orden == <<"VES", "COP", "EUR", "DEFAULT">>
        hay == {n \in 1..4 : orden[n] \in cols}
    IN IF hay = {} THEN "" ELSE orden[Minimo(hay)]

\* the key the claim expects for a currency cell
ClaveEsperada(divisa) ==
    LET norm == IF IsNa(divisa) THEN <<>> ELSE Strip(Upper(divisa.s))
    IN IF norm = N_VES THEN "VES"
       ELSE IF norm = N_COP THEN "COP"
       ELSE IF norm = N_EUR THEN "EUR"
       ELSE PrimeraDisponible

\* the rate the lookup gives in column key for an order date
TasaDeColumna(f, key) ==
    IF key = "" \/ key \notin ColumnasLookup(df_lookup) THEN Nulo
    ELSE LET j == FilaSeleccionada(df_lookup, f, key)
         IN IF j = 0 THEN Nulo ELSE df_lookup[j].tasas[key]

\* C6: the rate of an order is read from the column its upper-cased, trimmed
\* currency selects: VES, COP and EUR their own column, every other currency
\* (USD and null included) the first available of VES, COP, EUR, DEFAULT; with
\* none of these columns the order gets no rate.
C6_ColumnaPorDivisa ==
    TasaAsignada =>
        \A i \in 1..Len(df) :
            LET f == df[i]["FECHA_ORDEN"]
                key == ClaveEsperada(df[i]["DIVISA"])
            IN /\ FechaValida(f) => df[i]["TASA"] = TasaDeColumna(f, key)
               /\ key = "" => df[i]["TASA"] = Nulo

\* C6 witness: an order in USD gets the COP rate from a table that has an
\* EUR column before its COP column and no VES column.
C6_Witness ==
    /\ TasaAsignada
    /\ Len(df_lookup) = 1
    /\ DOMAIN df_lookup[1].tasas = {"COP", "EUR"}
    /\ \E i \in 1..Len(df) :
          /\ DivisaUpper(df[i]["DIVISA"]) = N_USD
          /\ df[i]["DIVISA"] # Texto(N_USD)
          /\ ~IsNa(df[i]["TASA"])
          /\ df[i]["TASA"] = df_lookup[1].tasas["COP"]
          /\ df[i]["TASA"] # df_lookup[1].tasas["EUR"]

----------------------------------------------------------------------------
(* Claims about the amount stages *)

MontosAgregados == pc \in {"asociado", "deuda", "fin"}
AsociadosAgregados == pc \in {"deuda", "fin"}
DeudaAgregada == pc = "fin"

\* the currency of a row as the claims read it: upper-cased and trimmed
DivisaNormalizada(fila) ==
    IF IsNa(fila["DIVISA"]) THEN <<>> ELSE Strip(Upper(fila["DIVISA"].s))

\* a rate an amount can be divided by: non-null, numeric, non-zero
TasaUsable(t) == ~IsNa(t) /\ ~IsNa(ToNumeric(t)) /\ ToNumeric(t).a # 0

\* a null rate, or a rate that is zero
TasaNulaOCero(t) == IsNa(t) \/ (~IsNa(ToNumeric(t)) /\ ToNumeric(t).a = 0)

Cociente(monto, t) == Num(monto.a * ToNumeric(t).b, monto.b * ToNumeric(t).a)

\* C7 (as stated): only rows whose currency is VES, COP or EUR are divided by
\* the rate; the rate of any other currency is never a divisor.
C7_SoloVesCopEurDividen ==
    \A d \in divisores : DivisaNormalizada(df[d.fila]) \in {N_VES, N_COP, N_EUR}

\* C7 (amended): a row in USD is never divided by its rate; every division is
\* by the numeric value of the row's own TASA; and a row of any other
\* currency outside VES, COP, EUR (null included) whose amount is non-null
\* is divided by the rate the priority fallback gave it, when that is usable.
C7_SoloUsdNoDivide ==
    /\ \A d \in divisores :
          /\ DivisaNormalizada(df[d.fila]) # N_USD
          /\ d.divisor = ToNumeric(df[d.fila]["TASA"])
    /\ MontosAgregados =>
          \A i \in 1..Len(df) :
              (/\ DivisaNormalizada(df[i]) \notin {N_USD, N_VES, N_COP, N_EUR}
               /\ ~IsNa(df[i]["MONTO OC"])
               /\ TasaUsable(df[i]["TASA"])) =>
                    /\ [etapa |-> "montos", fila |-> i,
                        divisor |-> ToNumeric(df[i]["TASA"])] \in divisores
                    /\ df[i]["MONTO OC USD"] = Cociente(df[i]["MONTO OC"], df[i]["TASA"])

\* C7 witness: an order in GBP got the VES rate through the priority fallback
\* and both of its amounts were divided by it, while the table has no GBP column.
C7_Witness ==
    /\ DeudaAgregada
    /\ \E i \in 1..Len(df) :
          /\ DivisaNormalizada(df[i]) = T_gbp
          /\ Len(df_lookup) = 1
          /\ "VES" \in DOMAIN df_lookup[1].tasas
          /\ df[i]["TASA"] = df_lookup[1].tasas["VES"]
          /\ [etapa |-> "montos", fila |-> i, divisor |-> df[i]["TASA"]] \in divisores
          /\ [etapa |-> "asociado", fila |-> i, divisor |-> df[i]["TASA"]] \in divisores

\* C8: for a row whose normalized currency is USD, MONTO OC USD equals
\* MONTO OC and MONTO OC ASOCIADO USD equals MONTO OC ASOCIADO, whatever the
\* rate (0 and null included).
C8_UsdNuncaDivide ==
    \A i \in 1..Len(df) :
        DivisaNormalizada(df[i]) = N_USD =>
            /\ MontosAgregados => df[i]["MONTO OC USD"] = df[i]["MONTO OC"]
            /\ AsociadosAgregados =>
                    df[i]["MONTO OC ASOCIADO USD"] = df[i]["MONTO OC ASOCIADO"]

\* C8 witness: a row in " usd" with a rate of 0 keeps both of its non-null amounts.
C8_Witness ==
    /\ AsociadosAgregados
    /\ \E i \in 1..Len(df) :
          /\ df[i]["DIVISA"] = Texto(T_usd_min)
          /\ df[i]["TASA"] = Entero(0)
          /\ ~IsNa(df[i]["MONTO OC"]) /\ df[i]["MONTO OC"].a # 0
          /\ df[i]["MONTO OC USD"] = df[i]["MONTO OC"]
          /\ ~IsNa(df[i]["MONTO OC ASOCIADO"])
          /\ df[i]["MONTO OC ASOCIADO USD"] = df[i]["MONTO OC ASOCIADO"]

\* C9: for a row with a non-null MONTO OC in VES, COP or EUR, MONTO OC USD is
\* MONTO OC / rate when the rate is non-null, numeric and non-zero, and null
\* when the rate is null or zero; for an unrecognized currency it is
\* MONTO OC / rate when the rate is usable and null otherwise; no division is
\* ever by zero.
C9_ConversionNoUsd ==
    /\ \A d \in divisores : d.divisor.k = "num" /\ d.divisor.a # 0
    /\ MontosAgregados =>
          \A i \in 1..Len(df) :
              LET monto == df[i]["MONTO OC"]
                  t == df[i]["TASA"]
                  usd == df[i]["MONTO OC USD"]
                  divisa == DivisaNormalizada(df[i])
              IN ~IsNa(monto) =>
                    /\ divisa \in {N_VES, N_COP, N_EUR} =>
                          /\ TasaUsable(t) => usd = Cociente(monto, t)
                          /\ TasaNulaOCero(t) => usd = Nulo
                    /\ divisa \notin {N_USD, N_VES, N_COP, N_EUR} =>
                          usd = IF TasaUsable(t) THEN Cociente(monto, t) ELSE Nulo

\* C9 witness: a row in VES was divided by a rate given as the text "5", and
\* the quotient is not a whole number.
C9_Witness ==
    /\ MontosAgregados
    /\ \E i \in 1..Len(df) :
          /\ DivisaNormalizada(df[i]) = N_VES
          /\ df[i]["TASA"] = Texto(T_5)
          /\ ~IsNa(df[i]["MONTO OC USD"])
          /\ df[i]["MONTO OC USD"].b = 5
          /\ [etapa |-> "montos", fila |-> i, divisor |-> Entero(5)] \in divisores

\* C10: MONTO REAL DEUDA is null exactly when MONTO OC USD and MONTO OC
\* ASOCIADO USD are both null; with exactly one null it is the order amount,
\* or the negated associated amount; with both present it is their difference.
C10_ReglaNulosDeuda ==
    DeudaAgregada =>
        \A i \in 1..Len(df) :
            LET oc == df[i]["MONTO OC USD"]
                as == df[i]["MONTO OC ASOCIADO USD"]
                deuda == df[i]["MONTO REAL DEUDA"]
            IN /\ IsNa(deuda) <=> (IsNa(oc) /\ IsNa(as))
               /\ (~IsNa(oc) /\ IsNa(as)) => deuda = oc
               /\ (IsNa(oc) /\ ~IsNa(as)) => deuda = Num(-as.a, as.b)
               /\ (~IsNa(oc) /\ ~IsNa(as)) =>
                        deuda = Num(oc.a * as.b - as.a * oc.b, oc.b * as.b)

\* C10 witness: a row with no order amount and an associated amount in USD
\* of 3/2 has a net debt of -3/2.
C10_Witness ==
    /\ DeudaAgregada
    /\ \E i \in 1..Len(df) :
          /\ IsNa(df[i]["MONTO OC USD"])
          /\ df[i]["MONTO OC ASOCIADO USD"] = Num(3, 2)
          /\ df[i]["MONTO REAL DEUDA"] = Num(-3, 2)

----------------------------------------------------------------------------
(* Claims about the order amount and its mirror *)

\* an operand the product can be computed from: non-null and numeric
Numerico(v) == ~IsNa(v) /\ ~IsNa(ToNumeric(v))

Producto(x, y) == Num(ToNumeric(x).a * ToNumeric(y).a, ToNumeric(x).b * ToNumeric(y).b)

\* C11: MONTO OC is PRICE_OVERRIDE * IMPORTE when both are non-null and
\* numeric and null when either is null or non-numeric; a null MONTO OC gives
\* a null MONTO OC USD whatever the currency and the rate.
C11_MontoOc ==
    MontosAgregados =>
        \A i \in 1..Len(df) :
            LET p == df[i]["PRICE_OVERRIDE"]
                m == df[i]["IMPORTE"]
            IN /\ (Numerico(p) /\ Numerico(m)) => df[i]["MONTO OC"] = Producto(p, m)
               /\ ~(Numerico(p) /\ Numerico(m)) => df[i]["MONTO OC"] = Nulo
               /\ IsNa(df[i]["MONTO OC"]) => IsNa(df[i]["MONTO OC USD"])

\* C11 witness: in a GBP row with a rate of 50, a price of 2 and an amount
\* given as the text "3" make an order amount of 6.
C11_Witness ==
    /\ MontosAgregados
    /\ \E i \in 1..Len(df) :
          /\ /\ df[i]["PRICE_OVERRIDE"] = Entero(2)
             /\ df[i]["IMPORTE"] = Texto(T_3)
             /\ df[i]["MONTO OC"] = Entero(6)
             /\ IsNa(df[i]["IMPORTE_ASOCIADO"])
             /\ df[i]["TASA"] = Entero(50)
             /\ df[i]["DIVISA"] = Texto(T_gbp)

\* C12: the associated-amount stage gives in MONTO OC ASOCIADO and MONTO OC
\* ASOCIADO USD the values the order-amount stage gives in MONTO OC and
\* MONTO OC USD for the same row with IMPORTE_ASOCIADO in place of IMPORTE.
C12_AsociadoEspejo ==
    AsociadosAgregados =>
        \A i \in 1..Len(df) :
            LET sustituida == ConCelda(df[i], "IMPORTE", df[i]["IMPORTE_ASOCIADO"])
            IN /\ df[i]["MONTO OC ASOCIADO"] = MontoOcDe(sustituida)
               /\ df[i]["MONTO OC ASOCIADO USD"] = MontoOcUsdDe(sustituida).valor

\* C12 witness: a row in VES whose two amounts differ, the associated one
\* given as the text "3", has both converted, to different values.
C12_Witness ==
    /\ AsociadosAgregados
    /\ \E i \in 1..Len(df) :
          /\ DivisaNormalizada(df[i]) = N_VES
          /\ df[i]["IMPORTE_ASOCIADO"] = Texto(T_3)
          /\ ~IsNa(df[i]["MONTO OC USD"])
          /\ ~IsNa(df[i]["MONTO OC ASOCIADO USD"])
          /\ df[i]["MONTO OC ASOCIADO USD"] # df[i]["MONTO OC ASOCIADO"]
          /\ df[i]["MONTO OC ASOCIADO USD"] # df[i]["MONTO OC USD"]

----------------------------------------------------------------------------
(* Claims about the filter *)

\* a row the claims call closed: its state, upper-cased and trimmed, is CERRADO
Cerrada(fila) ==
    /\ fila["ESTADO_CIERRE"].k = "str"
    /\ Strip(Upper(fila["ESTADO_CIERRE"].s)) = N_CERRADO

\* the positions of the rows of the table as given that are not closed
PosicionesAbiertas == {i \in 1..Len(df_ordenes) : ~Cerrada(df_ordenes[i])}

\* the k-th smallest element of S
Enesimo(S, k) == CHOOSE x \in S : Cardinality({y \in S : y <= x}) = k

\* C13: filtrar_cerrados returns exactly the rows whose state, upper-cased
\* and trimmed, is not CERRADO, in their original order and with their cells
\* unchanged; without the ESTADO_CIERRE column it raises and returns nothing.
C13_FiltroCerrados ==
    etapas = <<"filtrar">> =>
        IF EnColumnas(df_columns, "ESTADO_CIERRE")
        THEN /\ pc # "error"
             /\ Len(df) = Cardinality(PosicionesAbiertas)
             /\ \A k \in 1..Len(df) : df[k] = df_ordenes[Enesimo(PosicionesAbiertas, k)]
        ELSE /\ pc = "error"
             /\ error = {"ESTADO_CIERRE"}
             /\ df = df_ordenes

\* C13 witness: of three rows the middle one, written " cerrado ", is
\* removed and the other two, one with a null state and one CERRADA, stay.
C13_Witness ==
    /\ etapas = <<"filtrar">>
    /\ Len(df_ordenes) = 3
    /\ df_ordenes[2]["ESTADO_CIERRE"] = Texto(T_cerrado_min)
    /\ IsNa(df_ordenes[1]["ESTADO_CIERRE"])
    /\ df_ordenes[3]["ESTADO_CIERRE"] = Texto(T_cerrada)
    /\ df = <<df_ordenes[1], df_ordenes[3]>>

\* C14: filtrar_cerrados run on its own result returns the same table, row
\* for row.
C14_FiltroIdempotente ==
    [][pc = "refiltrar" => (pc' = "fin" /\ df' = df /\ df_columns' = df_columns)]_vars

\* C14 witness: the second run has ended on a table the first run had taken
\* two closed rows out of and left one row in.
C14_Witness ==
    /\ etapas = <<"filtrar", "filtrar">>
    /\ pc = "fin"
    /\ Len(df_ordenes) = 3
    /\ Len(df) = 1

----------------------------------------------------------------------------
(* Claims about the fiscal year *)

\* the text "a-b" of two years
Periodo(a, b) == Texto(Digitos(a) \o <<"-">> \o Digitos(b))

\* C15: the fiscal year of an order dated in month M of year Y is "Y-(Y+1)"
\* for M from 9 to 12 and "(Y-1)-Y" for M from 1 to 8, whatever the day and
\* the time of day; a null or unparseable order date has a null fiscal year.
C15_AnoFiscal ==
    pc = "fin" =>
        \A i \in 1..Len(df) :
            LET f == df[i]["FECHA_ORDEN"]
            IN IF f.k = "ts"
               THEN /\ MesDe(f) \in 9..12 => df[i]["AÑO FISCAL"] = Periodo(AnoDe(f), AnoDe(f) + 1)
                    /\ MesDe(f) \in 1..8 => df[i]["AÑO FISCAL"] = Periodo(AnoDe(f) - 1, AnoDe(f))
               ELSE df[i]["AÑO FISCAL"] = Nulo

\* C15 witness: an order of the last day of August 2026 is in fiscal year
\* 2025-2026, the one September 2025 is in too.
C15_Witness ==
    /\ pc = "fin"
    /\ \E i \in 1..Len(df) :
          /\ df[i]["FECHA_ORDEN"].k = "ts"
          /\ AnoDe(df[i]["FECHA_ORDEN"]) = 2026
          /\ MesDe(df[i]["FECHA_ORDEN"]) = 8
          /\ df[i]["FECHA_ORDEN"].a % DiasPorMes = 0
          /\ df[i]["AÑO FISCAL"] = Texto(<<"2", "0", "2", "5", "-", "2", "0", "2", "6">>)
          /\ df[i]["AÑO FISCAL"] = Periodo(AnoBase, AnoBase + 1)


----------------------------------------------------------------------------
(* Claims about missing columns.                                           *)

\* the columns each stage is said to require
ColumnasRequeridas ==
    [filtrar |-> {"ESTADO_CIERRE"},
     fiscal |-> {"FECHA_ORDEN"},
     area |-> {"SOLICITANTE"},
     montos |-> {"PRICE_OVERRIDE", "IMPORTE", "DIVISA", "TASA"},
     asociado |-> {"PRICE_OVERRIDE", "IMPORTE_ASOCIADO", "DIVISA", "TASA"},
     deuda |-> {"MONTO OC USD", "MONTO OC ASOCIADO USD"}]

ColumnasAusentes(etapa) ==
    {c \in ColumnasRequeridas[etapa] : \A i \in 1..Len(df_columns) : df_columns[i] # c}

\* C16: a stage among filter, fiscal year, area, order amount, associated
\* amount and net debt that is called on a table lacking one of its required
\* columns raises an error naming exactly the missing required columns and
\* returns no table (rows and columns stay as they were), and nothing runs
\* after an error: the pipeline ends at that stage.
C16_ErroresEstructurales ==
    [][/\ pc # "error"
       /\ \A etapa \in DOMAIN ColumnasRequeridas :
             (pc = etapa /\ ColumnasAusentes(etapa) # {}) =>
                /\ pc' = "error"
                /\ error' = ColumnasAusentes(etapa)
                /\ etapas' = Append(etapas, etapa)
                /\ df' = df
                /\ df_columns' = df_columns]_vars

\* a run that started at the filter without IMPORTE_ASOCIADO has gone through
\* five stages and ended in the associated-amount stage with an error naming
\* that column; the order amounts are in the table, the associated are not
C16_Witness ==
    /\ pc = "error"
    /\ etapas = <<"filtrar", "fiscal", "tasa", "area", "montos", "asociado">>
    /\ error = {"IMPORTE_ASOCIADO"}
    /\ \E i \in 1..Len(df_columns) : df_columns[i] = "MONTO OC USD"
    /\ \A i \in 1..Len(df_columns) : df_columns[i] # "MONTO OC ASOCIADO"

\* C17: the rate assignment called on a table without DIVISA does not raise:
\* it adds a TASA column that is null in every row and leaves every other
\* column of every row as it was.
C17_TasaSinDivisa ==
    [][(pc = "tasa" /\ \A k \in 1..Len(df_columns) : df_columns[k] # "DIVISA") =>
          /\ pc' = "area"
          /\ error' = {}
          /\ df_columns' = Append(df_columns, "TASA")
          /\ Len(df') = Len(df)
          /\ \A i \in 1..Len(df) :
                /\ DOMAIN df'[i] = DOMAIN df[i] \cup {"TASA"}
                /\ df'[i]["TASA"] = Nulo
                /\ \A c \in DOMAIN df[i] : df'[i][c] = df[i][c]]_vars

----------------------------------------------------------------------------
(* Claims about whole runs.                                                *)

DERIVADAS ==
    <<"AÑO FISCAL", "TASA", "AREA", "MONTO OC", "MONTO OC USD", "MONTO OC ASOCIADO",
      "MONTO OC ASOCIADO USD", "MONTO REAL DEUDA">>

ORDEN_ETAPAS == <<"filtrar", "fiscal", "tasa", "area", "montos", "asociado", "deuda">>

\* the orders of the input that are not closed, in the order of the input
AbiertasDeEntrada ==
    [k \in 1..Cardinality(PosicionesAbiertas) |-> df_ordenes[Enesimo(PosicionesAbiertas, k)]]

\* C18 (as stated): for every orders table with the 16 canonical columns
\* (one whose orders are all closed included), every rate table and every
\* area directory, the run never ends in an error, and once it has completed
\* the table has exactly the rows of the post-filter table, in the same
\* order and with their original cells, each with the eight derived fields.
C18_NuncaAborta ==
    /\ pc # "error"
    /\ pc = "fin" =>
          /\ Len(df) = Len(AbiertasDeEntrada)
          /\ \A i \in 1..Len(df) :
                /\ \A c \in DOMAIN AbiertasDeEntrada[i] : df[i][c] = AbiertasDeEntrada[i][c]
                /\ \A d \in 1..Len(DERIVADAS) : DERIVADAS[d] \in DOMAIN df[i]

\* how many derived columns the table has when k stages have returned
DerivadasTras == <<0, 0, 1, 2, 3, 5, 7, 8>>

\* C19: the stages of a run start in the order filter, fiscal year, rate,
\* area, order amount, associated amount, net debt, each one on the table the
\* previous one returned, so that every stage finds the columns it requires;
\* the table of a completed run has the original columns followed by the
\* eight derived columns in the order AÑO FISCAL, TASA, AREA, MONTO OC,
\* MONTO OC USD, MONTO OC ASOCIADO, MONTO OC ASOCIADO USD, MONTO REAL DEUDA.
C19_OrdenDeEtapas ==
    /\ Len(etapas) <= Len(ORDEN_ETAPAS)
    /\ \A i \in 1..Len(etapas) : etapas[i] = ORDEN_ETAPAS[i]
    /\ pc # "error" =>
          /\ pc = (IF Len(etapas) = Len(ORDEN_ETAPAS) THEN "fin"
                   ELSE ORDEN_ETAPAS[Len(etapas) + 1])
          /\ df_columns = COLUMNAS_ESPERADAS
                           \o SubSeq(DERIVADAS, 1, DerivadasTras[Len(etapas) + 1])
          /\ pc \in DOMAIN ColumnasRequeridas => ColumnasAusentes(pc) = {}
    /\ pc = "fin" => df_columns = COLUMNAS_ESPERADAS \o DERIVADAS

\* a run over two open orders has completed: the seven stages have run and
\* the table has the 16 original and the eight derived columns
C19_Witness ==
    /\ pc = "fin"
    /\ etapas = ORDEN_ETAPAS
    /\ Len(df) = 2
    /\ Len(df_columns) = 24
    /\ df_columns[17] = "AÑO FISCAL"
    /\ df_columns[24] = "MONTO REAL DEUDA"

----------------------------------------------------------------------------
(* Claims about header detection *)

\* the upper-cased, trimmed cells of row i (zero-based) of the raw sheet
CeldasNormalizadas(i) ==
    {Strip(Upper(CeldaComoTexto(df_raw[i + 1][j]))) : j \in 1..Len(df_raw[i + 1])}

\* the expected names, a cell of row i has
NombresEnFila(i, esperados) ==
    LET celdas == CeldasNormalizadas(i)
    IN {k \in 1..Len(esperados) : esperados[k] \in celdas}

\* the zero-based indexes of the rows among the first `limite` that qualify
\* with at least `minimo` of the expected names
FilasCalificadas(limite, esperados, minimo) ==
    {i \in 0..(Len(df_raw) - 1) :
        i < limite /\ Cardinality(NombresEnFila(i, esperados)) >= minimo}

\* the first of the qualifying rows, 0 when there is none
PrimeraCalificada(S) ==
    IF S = {} THEN 0 ELSE CHOOSE i \in S : \A j \in S : i <= j

\* C20: detectar_cabezales returns the zero-based index of the first row
\* among the first 5 whose upper-cased, trimmed cells contain all 16 expected
\* names, detectar_cabezales_tasa that of the first row among the first 10
\* with at least 3 of the 7 expected rate names; each returns 0 when no
\* scanned row qualifies, and never the index of a row beyond its limit.
C20_DeteccionCabezales ==
    /\ etapas = <<"cabezales">> =>
          /\ fila_cabezales = PrimeraCalificada(FilasCalificadas(5, NombresEsperados, 16))
          /\ fila_cabezales < 5
    /\ etapas = <<"cabezales_tasa">> =>
          /\ fila_cabezales =
                PrimeraCalificada(FilasCalificadas(10, columnas_esperadas_tasa, 3))
          /\ fila_cabezales < 10

\* an orders sheet whose only full header is its sixth row gives 0, and its
\* first row does not qualify
C20_Witness ==
    /\ etapas = <<"cabezales">>
    /\ Len(df_raw) = 6
    /\ df_raw[6] = FilaCabezalesSinNormalizar
    /\ \A i \in 1..5 : df_raw[i] \in {FilaCabezalesIncompleta, FilaDatos}
    /\ fila_cabezales = 0

----------------------------------------------------------------------------
(* Claims about loading *)

\* the upper-cased, trimmed column names of the table read under the header
\* row leer_ordenes_compra chose
NombresLeidos ==
    LET cols == ColumnasLeidas(df_raw, fila_cabezales)
    IN {cols[j] : j \in 1..Len(cols)}

\* the 17th cell of the header row leer_ordenes_compra chose
CeldaDeMas == df_raw[fila_cabezales + 1][17]

\* C21: a loaded orders table passes exactly when the set of its
\* upper-cased, trimmed column names equals the set of the 16 expected
\* names; on a mismatch loading fails with an error that lists the missing
\* and the unexpected columns, and no table is handed on.
C21_ValidacionEsquema ==
    etapas = <<"leer_ordenes">> =>
        LET esperadas == Normalizadas(NombresEsperados)
        IN /\ (pc # "error") <=> (NombresLeidos = esperadas)
           /\ pc = "error" =>
                 /\ error = (esperadas \ NombresLeidos) \cup (NombresLeidos \ esperadas)
                 /\ df = <<>>
                 /\ df_columns = <<>>

\* C30: leer_ordenes_compra returns a table only when its normalized column
\* set is exactly the 16 expected names; when no row among the first 5 has
\* all the names loading raises; and a header row with the 16 names plus
\* any additional cell is detected but then rejected by validation.
C30_EsquemaCanonico ==
    etapas = <<"leer_ordenes">> =>
        LET calificadas == FilasCalificadas(5, NombresEsperados, 16)
        IN /\ pc # "error" =>
                 /\ NombresLeidos = Normalizadas(NombresEsperados)
                 /\ {df_columns[j] : j \in 1..Len(df_columns)}
                       = {COLUMNAS_ESPERADAS[k] : k \in 1..Len(COLUMNAS_ESPERADAS)}
           /\ calificadas = {} => pc = "error"
           /\ (calificadas # {}
                  /\ Len(df_raw[PrimeraCalificada(calificadas) + 1]) > 16) =>
                 /\ fila_cabezales = PrimeraCalificada(calificadas)
                 /\ pc = "error"

----------------------------------------------------------------------------
(* Claims about the area lookup *)

\* the area the directory holds for a requester: the value under the
\* upper-cased, trimmed name; null for a null requester, a name the
\* directory lacks, or an empty directory
AreaEsperada(solicitante) ==
    IF DOMAIN areas_dict = {} \/ solicitante.k = "null" THEN Nulo
    ELSE IF Strip(Upper(solicitante.s)) \in DOMAIN areas_dict
         THEN Texto(areas_dict[Strip(Upper(solicitante.s))])
         ELSE Nulo

\* C22: the area lookup gives every row the directory value stored under
\* its upper-cased, trimmed requester name, null when the requester is null
\* or absent from the directory; with an empty directory it does not raise
\* and AREA is null in every row; it raises only when the SOLICITANTE
\* column is absent.
C22_BusquedaArea ==
    etapas = <<"area">> =>
        /\ (pc = "error") <=> (\A j \in 1..Len(df_columns) : df_columns[j] # "SOLICITANTE")
        /\ pc # "error" =>
              /\ Len(df) = Len(df_ordenes)
              /\ \A i \in 1..Len(df) : df[i]["AREA"] = AreaEsperada(df_ordenes[i]["SOLICITANTE"])
              /\ DOMAIN areas_dict = {} => \A i \in 1..Len(df) : df[i]["AREA"] = Nulo

\* a requester written in lower case with a blank gets the area of the
\* upper-cased name, beside a requester the directory lacks
C22_Witness ==
    /\ etapas = <<"area">>
    /\ pc = "fin"
    /\ Len(df) = 2
    /\ df_ordenes[1]["SOLICITANTE"] = Texto(T_ana)
    /\ df[1]["AREA"] = Texto(T_ventas)
    /\ df_ordenes[2]["SOLICITANTE"] = Texto(T_otro)
    /\ df[2]["AREA"] = Nulo
    /\ T_LUZ \notin DOMAIN areas_dict

----------------------------------------------------------------------------
(* Claims about what a stage does to the table *)

\* the derived columns of each enrichment stage
DerivadasDe(etapa) ==
    CASE etapa = "fiscal" -> {"AÑO FISCAL"}
      [] etapa = "tasa" -> {"TASA"}
      [] etapa = "area" -> {"AREA"}
      [] etapa = "montos" -> {"MONTO OC", "MONTO OC USD"}
      [] etapa = "asociado" -> {"MONTO OC ASOCIADO", "MONTO OC ASOCIADO USD"}
      [] etapa = "deuda" -> {"MONTO REAL DEUDA"}
      [] OTHER -> {}

ColumnasDe(cols) == {cols[j] : j \in 1..Len(cols)}

\* a stage that returns leaves the rows, their order and the cells of the
\* columns the table had, and adds its own columns only; the filter keeps
\* the columns and returns rows of the table, with their cells, in order
PasoAditivo ==
    pc' # "error" =>
        IF pc = "filtrar"
        THEN /\ df_columns' = df_columns
             /\ \E pos \in [1..Len(df') -> 1..Len(df)] :
                   /\ \A i \in 1..Len(df') : df'[i] = df[pos[i]]
                   /\ \A i \in 1..(Len(df') - 1) : pos[i] < pos[i + 1]
        ELSE /\ Len(df') = Len(df)
             /\ \A i \in 1..Len(df) : \A c \in ColumnasDe(df_columns) : df'[i][c] = df[i][c]
             /\ \A j \in 1..Len(df_columns) : df_columns'[j] = df_columns[j]
             /\ ColumnasDe(df_columns') = ColumnasDe(df_columns) \cup DerivadasDe(pc)
             /\ ColumnasDe(df_columns) \cap DerivadasDe(pc) = {}
             /\ \A i \in 1..Len(df) : DOMAIN df'[i] = ColumnasDe(df_columns')

\* C25: each of the fiscal year, rate assignment, area lookup, order amount,
\* associated amount and net debt stages returns a table with the same rows
\* in the same order, every pre-existing column present with unchanged
\* values, and only its own derived columns added; only filtering changes
\* the row set, and it removes no column.
C25_EtapasAditivas == [][PasoAditivo]_vars

\* a completed run over two open orders and a closed one between them: every
\* stage has returned and the filter has removed the closed order
C25_Witness ==
    /\ pc = "fin"
    /\ Len(df_ordenes) = 3
    /\ Len(df) = 2
    /\ Cerrada(df_ordenes[2])
    /\ df[1]["DIVISA"] = df_ordenes[1]["DIVISA"]
    /\ df[2]["SOLICITANTE"] = df_ordenes[3]["SOLICITANTE"]
    /\ "MONTO REAL DEUDA" \in DOMAIN df[1]

----------------------------------------------------------------------------
(* Claims about the rate column of VES, COP and EUR *)

\* the rate table has a column whose upper-cased label contains one of pats
HayColumna(pats) ==
    \E c \in 1..Len(tasa_columns) : \E p \in pats : Contiene(p, Upper(tasa_columns[c]))

\* the rate table has the rate column of the currency written norm
HayColumnaPropia(norm) ==
    IF norm = N_VES THEN HayColumna({N_VES_USD, N_VES_USD2})
    ELSE IF norm = N_COP THEN HayColumna({N_COP_USD, N_COP_USD2})
    ELSE HayColumna({N_EUR_USD, N_EUR_USD2})

\* C29: an order in VES, COP or EUR is resolved only against its own rate
\* column: when the rate table lacks it the order's rate is None, even if
\* the column of another currency or the DEFAULT column exists; an order in
\* any other currency (USD included) gets its rate from the first available
\* column of the priority order.
C29_SoloColumnaPropia ==
    TasaAsignada =>
        \A i \in 1..Len(df) :
            LET f == df[i]["FECHA_ORDEN"]
                norm == IF df[i]["DIVISA"].k = "null" THEN <<>>
                        ELSE Strip(Upper(df[i]["DIVISA"].s))
            IN IF norm \in {N_VES, N_COP, N_EUR}
               THEN ~HayColumnaPropia(norm) => df[i]["TASA"] = Nulo
               ELSE FechaValida(f) => df[i]["TASA"] = TasaDeColumna(f, PrimeraDisponible)

\* an order in VES gets no rate from a table that has the COP column but
\* not the VES column, with a COP rate on the date of the order
C29_Witness ==
    /\ TasaAsignada
    /\ tasa_columns = <<N_FECHA, N_COP_USD>>
    /\ Len(df_lookup) = 1
    /\ DivisaUpper(df[1]["DIVISA"]) = N_VES
    /\ FechaValida(df[1]["FECHA_ORDEN"])
    /\ TasaDeColumna(df[1]["FECHA_ORDEN"], "COP") = Entero(50)
    /\ df[1]["TASA"] = Nulo

----------------------------------------------------------------------------
(* Claims about the web service *)

\* POST /generar-deuda has finished the stages and the Excel write and has
\* found the output file: what is left are the uploads and the answer
TrasElExcel ==
    /\ peticion.endpoint = "generar"
    /\ pc \in {"bigquery", "storage", "responder"}

\* C23: in POST /generar-deuda, once the seven stages and the Excel write
\* have completed, a BigQuery or Cloud Storage upload that fails or is
\* skipped leaves the enriched table unchanged, and the request answers 200
\* with status success and filas_procesadas equal to the number of rows of
\* the enriched table.
C23_FallasNoRevierten ==
    [][TrasElExcel =>
          /\ df' = df
          /\ df_columns' = df_columns
          /\ pc' \in {"storage", "responder", "fin"}
          /\ pc' = "fin" =>
                /\ respuesta'.codigo = 200
                /\ respuesta'.status = "success"
                /\ respuesta'.filas = Len(df)]_vars

\* both uploads were attempted and failed, and the answer is 200 with the
\* one open order of the sheet
C23_Witness ==
    /\ peticion.endpoint = "generar"
    /\ pc = "fin"
    /\ subidas = <<[destino |-> "bigquery", ok |-> FALSE],
                   [destino |-> "storage", ok |-> FALSE]>>
    /\ respuesta.codigo = 200
    /\ respuesta.status = "success"
    /\ Len(df) = 1
    /\ respuesta.filas = 1

\* loading or an enrichment stage has raised
FalloEstructural ==
    /\ pc = "error"
    /\ etapas # <<>>
    /\ etapas[Len(etapas)] # "excel"

\* no output file, no upload, no success answer and no complete event
SinResultado ==
    /\ "salida" \notin temp_dir.archivos
    /\ subidas = <<>>
    /\ respuesta.status # "success"
    /\ \A i \in 1..Len(eventos) : eventos[i].type # "complete"

\* C24: in every run of POST /generar-deuda and POST /generar-deuda/stream
\* in which loading or an enrichment stage raises, no output file is
\* written and nothing is uploaded, then or later; the caller gets an error
\* (HTTP 500 or an SSE event of type error) and never a success; and an
\* upload happens only after loading, the seven stages and the Excel write.
C24_SinResultadoParcial ==
    /\ [](FalloEstructural => []SinResultado)
    /\ [][FalloEstructural =>
             \/ respuesta'.codigo = 500 /\ respuesta'.status = "error"
             \/ /\ Len(eventos') = Len(eventos) + 1
                /\ eventos'[Len(eventos')].type = "error"]_vars
    /\ [](subidas # <<>> =>
             etapas = <<"leer_ordenes", "leer_tasa", "filtrar", "fiscal", "tasa", "area",
                        "montos", "asociado", "deuda", "excel">>)

\* the rate stage raised in a streaming run: the events end with the error
\* event, nothing was written or uploaded
C24_Witness ==
    /\ peticion.endpoint = "stream"
    /\ pc = "fin"
    /\ etapas = <<"leer_ordenes", "leer_tasa", "filtrar", "fiscal", "tasa">>
    /\ Len(eventos) = 8
    /\ eventos[8].type = "error"
    /\ subidas = <<>>
    /\ entorno.GCP_PROJECT_ID
    /\ entorno.GCS_BUCKET_NAME

EsTerminal(e) == e.type \in {"complete", "error"}

\* C27: in /generar-deuda/stream the percents of the events are strictly
\* increasing, a terminal event (complete, with percent 100, or error) is
\* the last event, so that complete and error never both occur, and a run
\* consumed to the end has exactly one terminal event.
C27_SecuenciaDeEventos ==
    /\ \A i, j \in 1..Len(eventos) :
          (i < j /\ eventos[i].type # "error" /\ eventos[j].type # "error")
             => eventos[i].percent < eventos[j].percent
    /\ \A i \in 1..Len(eventos) :
          /\ eventos[i].type \in {"progress", "complete", "error"}
          /\ eventos[i].type = "complete" => eventos[i].percent = 100
          /\ EsTerminal(eventos[i]) => i = Len(eventos)
    /\ (peticion.endpoint = "stream" /\ pc = "fin" /\ respuesta.status = "stream") =>
          /\ eventos # <<>>
          /\ EsTerminal(eventos[Len(eventos)])

\* a run consumed to the end with both uploads: fourteen progress events
\* and the complete event
C27_Witness ==
    /\ peticion.endpoint = "stream"
    /\ pc = "fin"
    /\ Len(eventos) = 15
    /\ eventos[13].percent = 85
    /\ eventos[14].percent = 92
    /\ eventos[15].type = "complete"

\* C28: every request to /generar-deuda or /generar-deuda/stream that
\* creates a temporary directory has deleted its files and the directory
\* when it is over, on every outcome: success, failure while saving the
\* uploaded files, processing error, missing output file, or a stream whose
\* generator is closed before or during iteration.
C28_LimpiezaTemporal ==
    pc \in {"fin", "cerrado"} => temp_dir.estado # "creado"

----------------------------------------------------------------------------
(* Claims about the listing *)

\* C26: GET /archivos returns at most `limit` execution folders (50 when no
\* limit is sent) for every integer value of the limit parameter, ordered
\* by folder name descending, with total_ejecuciones equal to the number of
\* folders returned and at least one file in every folder listed.
C26_ListadoAcotado ==
    (peticion.endpoint = "archivos" /\ pc = "fin" /\ respuesta.codigo = 200) =>
        LET limit == IF peticion.limit = <<>> THEN 50 ELSE peticion.limit[1]
            lista == respuesta.archivos
        IN /\ Len(lista) <= (IF limit < 0 THEN 0 ELSE limit)
           /\ \A i \in 1..(Len(lista) - 1) : lista[i].carpeta > lista[i + 1].carpeta
           /\ respuesta.total_ejecuciones = Len(lista)
           /\ \A i \in 1..Len(lista) : lista[i].archivos # {}
=============================================================================
